---- MODULE Spec2Model ----
(***************************************************************************)
(* A model of the lazily synchronised RGB / HSL colour of src/src/color.ts *)
(* with its two component spaces (rgb.ts, hsl.ts) and the helpers and      *)
(* parsers of util.ts, and of the typed-array Color of src/index.ts.       *)
(*                                                                         *)
(* Numbers.  The program computes in IEEE doubles.  The model computes in  *)
(* exact integer and rational arithmetic: a rational is a pair <<n, d>>    *)
(* with d > 0, and Math.round is round-half-up on the exact value.  The    *)
(* two agree except where a conversion lands exactly on a half and the     *)
(* double lies just below it; the seeds and arguments below meet no such   *)
(* half within MaxOps calls.  An                                           *)
(* RGBA set is <<r, g, b, a>> of integers, an HSLA set is <<h, s, l, a>>   *)
(* with integer h, s, l and a rational alpha.  A luma is kept as the       *)
(* integer 10000 * 255 * luma (the weights are multiples of 1/10000).      *)
(***************************************************************************)
EXTENDS Integers, Sequences, FiniteSets, TLC

\* ------------------------------------------------------------------------
\* util.ts: clamping and rounding

Min2(a, b) == IF a < b THEN a ELSE b
Max2(a, b) == IF a > b THEN a ELSE b
Abs(a) == IF a < 0 THEN -a ELSE a

\* Math.round(n / d) for d > 0: the nearest integer, halves rounded up.
Round(n, d) == (2 * n + d) \div (2 * d)

\* limit(v, max) = v > max ? max : v < 0 ? 0 : v
limit(v, max) == IF v > max THEN max ELSE IF v < 0 THEN 0 ELSE v

\* unit(n) = limit(n, 1) on a rational <<n, d>>; 1 and 0 are written <<1, 1>>
\* and <<0, 1>>, so that equal alphas of the model are equal tuples.
unit(q) == IF q[1] >= q[2] THEN <<1, 1>> ELSE IF q[1] <= 0 THEN <<0, 1>> ELSE q

\* byte_(b) = byte(Math.round(b)), b = n / d
byte_(n, d) == limit(Round(n, d), 255)

\* angle_(d) = angle(Math.round(d)): the upper limit is 360, inclusive
angle_(n, d) == limit(Round(n, d), 360)

\* pct_(p) = pct(Math.round(p))
pct_(n, d) == limit(Round(n, d), 100)

\* rotate_(angle, deg) = angle + deg > 359 ? angle + deg - 359 : angle + deg
rotate_(angle, deg) ==
    IF angle + deg > 359 THEN angle + deg - 359 ELSE angle + deg

\* JavaScript's a % b for b > 0: the remainder takes the sign of a.
JsRem(a, b) == IF a >= 0 THEN a % b ELSE -((-a) % b)

\* ------------------------------------------------------------------------
\* util.ts: parsing.  A color string is modelled by its pieces.  A piece of an
\* rgb() / hsl() string is a token: a decimal literal (possibly followed by
\* text such as "%", which parseInt and parseFloat skip), a text that does not
\* start with a number, or a piece that is not there (undefined).  A hex
\* string is the sequence of its characters after "#", each a digit value
\* 0..15 or NotHex.  NaN is a value of its own, never computed with.

NaN == 0 - 100000

Num(n, d) == [k |-> "num", v |-> <<n, d>>]
Txt == [k |-> "txt", v |-> <<0, 1>>]
Missing == [k |-> "none", v |-> <<0, 1>>]

NotHex == 16

\* What a parser returns, or that it threw
Parsed(val) == [ok |-> TRUE, val |-> val]
Thrown == [ok |-> FALSE, val |-> <<>>]

\* parseInt(token): the integer part of the literal, NaN without a literal
parseInt(tok) ==
    IF tok.k # "num" THEN NaN
    ELSE IF tok.v[1] >= 0 THEN tok.v[1] \div tok.v[2]
    ELSE 0 - ((0 - tok.v[1]) \div tok.v[2])

\* parseFloat(token) || 1: NaN and 0 are falsy
parseFloatOr1(tok) ==
    IF tok.k # "num" \/ tok.v[1] = 0 THEN <<1, 1>> ELSE tok.v

\* hexToByte(c1 + c2) = parseInt(.., 16), NaN replaced by 255; parseInt reads
\* the longest prefix of hex digits.
hexToByte(c1, c2) ==
    IF c1 >= NotHex THEN 255
    ELSE IF c2 >= NotHex THEN c1
    ELSE 16 * c1 + c2

\* hex[i] for the string "#" + hex; past the end it is undefined, and
\* undefined + undefined is no hex digit.
HexAt(hex, i) == IF i <= Len(hex) THEN hex[i] ELSE NotHex

\* A variant of shortHexToRGB that reads each digit once, without doubling it.
shortHexToRGB_single(hex) ==
    <<hexToByte(HexAt(hex, 1), NotHex),
      hexToByte(HexAt(hex, 2), NotHex),
      hexToByte(HexAt(hex, 3), NotHex),
      hexToByte(HexAt(hex, 4), NotHex)>>

shortHexToRGB(hex) ==
    <<hexToByte(HexAt(hex, 1), HexAt(hex, 1)),
      hexToByte(HexAt(hex, 2), HexAt(hex, 2)),
      hexToByte(HexAt(hex, 3), HexAt(hex, 3)),
      hexToByte(HexAt(hex, 4), HexAt(hex, 4))>>

fullHexToRGB(hex) ==
    <<hexToByte(HexAt(hex, 1), HexAt(hex, 2)),
      hexToByte(HexAt(hex, 3), HexAt(hex, 4)),
      hexToByte(HexAt(hex, 5), HexAt(hex, 6)),
      hexToByte(HexAt(hex, 7), HexAt(hex, 8))>>

\* hexToRGB: the switch is on the length of the string, "#" included
hexToRGB(hex) ==
    IF Len(hex) + 1 \in {4, 5} THEN Parsed(shortHexToRGB(hex))
    ELSE IF Len(hex) + 1 \in {7, 9} THEN Parsed(fullHexToRGB(hex))
    ELSE Thrown

\* byte.toString(16): the hex digits of a natural, most significant first
RECURSIVE HexDigits(_)
HexDigits(n) ==
    IF n < 16 THEN <<n>> ELSE Append(HexDigits(n \div 16), n % 16)

\* toHex: a single digit is padded with "0"; NaN prints as "NaN"
toHex(byte) ==
    IF byte = NaN THEN <<NotHex, 10, NotHex>>
    ELSE IF byte < 16 THEN <<0, byte>>
    ELSE HexDigits(byte)

\* RGBToHex: the characters after "#"
RGBToHex(bytes) == toHex(bytes[1]) \o toHex(bytes[2]) \o toHex(bytes[3])

\* HSLtoHsl: the numbers the template prints, "hsl(h s% l%)"
HSLtoHsl(bytes) == <<bytes[1], bytes[2], bytes[3]>>

\* rgbToRGB: rgb is the text between the parentheses split at ","
rgbToRGB(rgb) ==
    IF Len(rgb) < 3 THEN Thrown
    ELSE LET a == parseFloatOr1(IF Len(rgb) >= 4 THEN rgb[4] ELSE Missing)
         IN  Parsed(<<parseInt(rgb[1]), parseInt(rgb[2]), parseInt(rgb[3]),
                      byte_(a[1] * 255, a[2])>>)

\* hslToHSL: data is the text before "/" split at " ", a the text after "/"
hslToHSL(data, a) ==
    IF Len(data) < 3 THEN Thrown
    ELSE LET alpha == parseFloatOr1(a)
         IN  Parsed(<<parseInt(data[1]), parseInt(data[2]), parseInt(data[3]),
                      unit(IF alpha[1] > alpha[2]
                           THEN <<alpha[1], 100 * alpha[2]>> ELSE alpha)>>)

\* ------------------------------------------------------------------------
\* util.ts: rgb byte filters (value and alpha are rationals)

contrast(byte, value) ==
    byte_(value[1] * (byte - 128) + 128 * value[2], value[2])

brightness(byte, value) == byte_(byte * value[1], value[2])

\* solid(byte, bg, alpha) = byte_(byte * alpha + bg * (1 - alpha))
solid(byte, bg, alpha) ==
    byte_(byte * alpha[1] + bg * (alpha[2] - alpha[1]), alpha[2])

\* ------------------------------------------------------------------------
\* util.ts: luma.  The weights as integers: luma = LumaSum / (10000 * 255).

Weights(YUV) == IF YUV THEN <<2990, 5870, 1140>> ELSE <<2126, 7152, 722>>

\* luma([r, g, b, a], YUV)
luma(bytes, YUV) ==
    LET w == Weights(YUV)
    IN  w[1] * bytes[1] + w[2] * bytes[2] + w[3] * bytes[3]

\* lumaAlpha([r, g, b, a], [r_, g_, b_], YUV): solid is handed the alpha
\* BYTE a as its blend weight.
lumaAlpha(bytes, bg, YUV) ==
    LET w == Weights(YUV)
        a == <<bytes[4], 1>>
    IN  w[1] * solid(bytes[1], bg[1], a)
          + w[2] * solid(bytes[2], bg[2], a)
          + w[3] * solid(bytes[3], bg[3], a)

\* ------------------------------------------------------------------------
\* hsl.ts: the HSLA component space

\* HSLa.fromRGBa: l is the largest channel, s the spread; the hue is picked
\* by the first channel equal to l; the saturation branch tests l (the
\* largest channel) against 0.5.
HSLa_fromRGBa(rgba) ==
    LET r  == rgba[1]
        g  == rgba[2]
        b  == rgba[3]
        mx == Max2(r, Max2(g, b))
        mn == Min2(r, Min2(g, b))
        d  == mx - mn
        hn == IF d = 0 THEN 0
              ELSE IF mx = r THEN g - b
              ELSE IF mx = g THEN (b - r) + 2 * d
              ELSE (r - g) + 4 * d
        hue == IF d = 0 THEN 0
               ELSE IF hn < 0 THEN angle_(60 * hn + 360 * d, d)
               ELSE angle_(60 * hn, d)
        sat == IF d = 0 THEN 0
               ELSE IF 2 * mx <= 255 THEN pct_(100 * d, mx + mn)
               ELSE pct_(100 * d, 510 - (mx + mn))
        lig == pct_(100 * (mx + mn), 510)
    IN  <<hue, sat, lig, unit(<<rgba[4], 255>>)>>

\* A variant of HSLa.opacity that stores the value as given.
HSLa_opacity_raw(hsla, value) == [hsla EXCEPT ![4] = value]

HSLa_opacity(hsla, value) == [hsla EXCEPT ![4] = unit(value)]

HSLa_rotateHue(hsla, deg) == [hsla EXCEPT ![1] = rotate_(hsla[1], deg)]

HSLa_saturate(hsla, value) ==
    [hsla EXCEPT ![2] = pct_(hsla[2] * value[1], value[2])]

HSLa_invert(hsla) ==
    <<rotate_(hsla[1], 180), 100 - hsla[2], 100 - hsla[3], hsla[4]>>

\* HSLa.hasAlpha: a !== 1
HSLa_hasAlpha(hsla) == hsla[4][1] # hsla[4][2]

\* ------------------------------------------------------------------------
\* rgb.ts: the RGBA component space

\* RGBa.#f(n, h, l, a) times 255, as the rational <<num, 300000>>; n and the
\* hue are counted in thirtieths (n + h / 30 = (30 n + h) / 30).
RGBa_f(n, h, s, l) ==
    LET N == JsRem(30 * n + h, 360)
        M == Max2(-30, Min2(Min2(N - 90, 270 - N), 30))
    IN  255 * (3000 * l - s * Min2(l, 100 - l) * M)

RGBa_fromHSLa(hsla) ==
    LET h == hsla[1]
        s == hsla[2]
        l == hsla[3]
    IN  <<byte_(RGBa_f(0, h, s, l), 300000),
          byte_(RGBa_f(8, h, s, l), 300000),
          byte_(RGBa_f(4, h, s, l), 300000),
          byte_(hsla[4][1] * 255, hsla[4][2])>>

RGBa_contrast(rgba, value) ==
    <<contrast(rgba[1], value), contrast(rgba[2], value),
      contrast(rgba[3], value), rgba[4]>>

RGBa_brightness(rgba, value) ==
    <<brightness(rgba[1], value), brightness(rgba[2], value),
      brightness(rgba[3], value), rgba[4]>>

\* A variant of RGBa.opacity that scales the alpha byte it finds.
RGBa_opacity_scale(rgba, value) ==
    [rgba EXCEPT ![4] = byte_(rgba[4] * value[1], value[2])]

RGBa_opacity(rgba, value) ==
    [rgba EXCEPT ![4] = byte_(value[1] * 255, value[2])]

\* A variant of RGBa.solid that resets the alpha byte first and blends after.
RGBa_solid_reset(rgba, bg) ==
    <<solid(rgba[1], bg[1], <<255, 255>>), solid(rgba[2], bg[2], <<255, 255>>),
      solid(rgba[3], bg[3], <<255, 255>>), 255>>

\* RGBa.solid(bg): every channel is blended with this.alpha = a / 255, read
\* before the alpha byte is overwritten by the last statement.
RGBa_solid(rgba, bg) ==
    LET alpha == <<rgba[4], 255>>
    IN  <<solid(rgba[1], bg[1], alpha), solid(rgba[2], bg[2], alpha),
          solid(rgba[3], bg[3], alpha), 255>>

RGBa_invert(rgba) ==
    <<255 - rgba[1], 255 - rgba[2], 255 - rgba[3], rgba[4]>>

\* RGBa.hasAlpha: a !== 255
RGBa_hasAlpha(rgba) == rgba[4] # 255


\* ------------------------------------------------------------------------
\* color.ts: the Color facade.  A Color is a record; a set that was never
\* assigned is NoSet, an unset cache is Undef, an unset background is 0.

NoSet == <<>>
Undef == 0 - 1

\* Color.#fromRGBa
Color_fromRGBa(rgba) ==
    [rgb |-> rgba, hsl |-> NoSet, outdated |-> 1, bg |-> 0,
     luma |-> Undef, lumaYUV |-> Undef]

\* Color.#fromHSLa
Color_fromHSLa(hsla) ==
    [rgb |-> NoSet, hsl |-> hsla, outdated |-> 0, bg |-> 0,
     luma |-> Undef, lumaYUV |-> Undef]

\* A variant of get #RGBa that converts without updating the flag.
GetRGBa_noflag(c) ==
    IF c.outdated = 0 THEN [c EXCEPT !.rgb = RGBa_fromHSLa(c.hsl)] ELSE c

\* get #RGBa: the color after the getter ran; the set it returns is .rgb
GetRGBa(c) ==
    IF c.outdated = 0
    THEN [c EXCEPT !.rgb = RGBa_fromHSLa(c.hsl), !.outdated = 0 - 1]
    ELSE c

\* get #HSLa: the color after the getter ran; the set it returns is .hsl
GetHSLa(c) ==
    IF c.outdated = 1
    THEN [c EXCEPT !.hsl = HSLa_fromRGBa(c.rgb), !.outdated = 0 - 1]
    ELSE c

\* A variant of #preferRGBa that answers the RGBA set only when the HSLA set
\* is outdated.
preferRGBa_strict(c) == c.outdated = 1

\* get #preferRGBa: TRUE when it answers the RGBA set, FALSE for the HSLA set
preferRGBa(c) == c.outdated # 0

\* get #preferHSLa: TRUE when it answers the HSLA set, FALSE for the RGBA set
preferHSLa(c) == c.outdated # 1

\* A variant of #outdateRGBa that leaves the flag alone.
outdateRGBa_skip(c, preferred) == c

outdateRGBa(c, preferred) ==
    IF preferred
    THEN IF c.outdated # 1 THEN [c EXCEPT !.outdated = 0] ELSE c
    ELSE [c EXCEPT !.outdated = 0]

\* A variant of #outdateHSLa that does nothing when a set is preferred.
outdateHSLa_lazy(c, preferred) ==
    IF preferred THEN c ELSE [c EXCEPT !.outdated = 1]

\* A variant of #outdateHSLa that leaves the flag alone.
outdateHSLa_skip(c, preferred) == c

outdateHSLa(c, preferred) ==
    IF preferred
    THEN IF c.outdated # 0 THEN [c EXCEPT !.outdated = 1] ELSE c
    ELSE [c EXCEPT !.outdated = 1]

\* A variant of #clearLumaCache that keeps the memoized values.
clearLumaCache_keep(c) == c

clearLumaCache(c) == [c EXCEPT !.luma = Undef, !.lumaYUV = Undef]

\* get alpha: the unit alpha of the preferred set, as a rational
Color_alpha(c) == IF preferHSLa(c) THEN c.hsl[4] ELSE <<c.rgb[4], 255>>

\* get hasAlpha
Color_hasAlpha(c) ==
    IF preferHSLa(c) THEN HSLa_hasAlpha(c.hsl) ELSE RGBa_hasAlpha(c.rgb)

Color_contrast(c, value) ==
    LET c1 == GetRGBa(c)
    IN  clearLumaCache(outdateHSLa(
            [c1 EXCEPT !.rgb = RGBa_contrast(c1.rgb, value)], FALSE))

Color_brightness(c, value) ==
    LET c1 == GetRGBa(c)
    IN  clearLumaCache(outdateHSLa(
            [c1 EXCEPT !.rgb = RGBa_brightness(c1.rgb, value)], FALSE))

Color_opacity(c, value) ==
    LET c1 == IF preferRGBa(c)
              THEN [c EXCEPT !.rgb = RGBa_opacity(c.rgb, value)]
              ELSE [c EXCEPT !.hsl = HSLa_opacity(c.hsl, value)]
    IN  clearLumaCache(outdateHSLa(c1, TRUE))

\* A variant of rotateHue that marks the HSLA set outdated instead of the
\* RGBA set.
Color_rotateHue_swapped(c, deg) ==
    LET c1 == GetHSLa(c)
    IN  clearLumaCache(outdateHSLa(
            [c1 EXCEPT !.hsl = HSLa_rotateHue(c1.hsl, deg)], FALSE))

Color_rotateHue(c, deg) ==
    LET c1 == GetHSLa(c)
    IN  clearLumaCache(outdateRGBa(
            [c1 EXCEPT !.hsl = HSLa_rotateHue(c1.hsl, deg)], FALSE))

Color_saturate(c, value) ==
    LET c1 == GetHSLa(c)
    IN  clearLumaCache(outdateRGBa(
            [c1 EXCEPT !.hsl = HSLa_saturate(c1.hsl, value)], FALSE))

\* A variant of invert that works on whichever set is up to date: the HSLA
\* set when the RGBA set is outdated.
Color_invert_fresh(c) ==
    IF c.outdated = 0
    THEN clearLumaCache(outdateRGBa([c EXCEPT !.hsl = HSLa_invert(c.hsl)], FALSE))
    ELSE clearLumaCache(outdateHSLa([c EXCEPT !.rgb = RGBa_invert(c.rgb)], FALSE))

Color_invert(c) ==
    LET c1 == GetRGBa(c)
    IN  clearLumaCache(outdateHSLa(
            [c1 EXCEPT !.rgb = RGBa_invert(c1.rgb)], FALSE))

Color_invertHSL(c) ==
    LET c1 == GetHSLa(c)
    IN  clearLumaCache(outdateRGBa(
            [c1 EXCEPT !.hsl = HSLa_invert(c1.hsl)], FALSE))

\* The default background of solid and lumaAlpha
White == <<255, 255, 255>>

\* this.#backgound?.bytes: the getter runs on the background color, so the
\* heap after the read and the bytes read.  h is a heap: a sequence of Colors.
BgRead(h, id) ==
    LET b == h[id].bg
    IN  IF b = 0 THEN h ELSE [h EXCEPT ![b] = GetRGBa(h[b])]

BgBytes(h, id) == IF h[id].bg = 0 THEN White ELSE h[h[id].bg].rgb

\* Color.solid on the color id of heap h: hasAlpha, then this.#RGBa, then the
\* background's bytes, then RGBa.solid.
Color_solid(h, id) ==
    IF Color_hasAlpha(h[id])
    THEN LET h1 == [h EXCEPT ![id] = GetRGBa(h[id])]
             h2 == BgRead(h1, id)
         IN  [h2 EXCEPT ![id] = clearLumaCache(outdateHSLa(
                 [h2[id] EXCEPT !.rgb = RGBa_solid(h2[id].rgb, BgBytes(h2, id))],
                 FALSE))]
    ELSE h

\* The value luma / lumaYUV computes when its cache is unset, and the heap
\* after the getters it runs (its own #RGBa, the background's bytes).
LumaHeap(h, id) ==
    LET h1 == [h EXCEPT ![id] = GetRGBa(h[id])]
    IN  IF Color_hasAlpha(h[id]) THEN BgRead(h1, id) ELSE h1

LumaValue(h, id, YUV) ==
    LET h2 == LumaHeap(h, id)
    IN  IF Color_hasAlpha(h[id])
        THEN lumaAlpha(h2[id].rgb, BgBytes(h2, id), YUV)
        ELSE luma(h2[id].rgb, YUV)

\* !this.#luma: undefined and 0 are both falsy
Falsy(v) == v = Undef \/ v = 0

\* get luma: the heap after the read; the value returned is .luma
Color_luma(h, id) ==
    IF Falsy(h[id].luma)
    THEN LET h2 == LumaHeap(h, id)
         IN  [h2 EXCEPT ![id].luma = LumaValue(h, id, FALSE)]
    ELSE h

\* get lumaYUV: the heap after the read; the value returned is .lumaYUV
Color_lumaYUV(h, id) ==
    IF Falsy(h[id].lumaYUV)
    THEN LET h2 == LumaHeap(h, id)
         IN  [h2 EXCEPT ![id].lumaYUV = LumaValue(h, id, TRUE)]
    ELSE h


\* The chain id, background of id, its background, ... in heap h; a chain
\* that runs into itself ends with 0.
RECURSIVE BgChainFrom(_, _, _)
BgChainFrom(h, id, seen) ==
    IF id = 0 THEN <<>>
    ELSE IF id \in seen THEN <<0>>
    ELSE <<id>> \o BgChainFrom(h, h[id].bg, seen \cup {id})

BgChain(h, id) == BgChainFrom(h, id, {})

\* Color.clone recurses along the background chain: it returns only when the
\* chain is finite.
CloneReturns(h, id) ==
    LET ch == BgChain(h, id) IN ch[Len(ch)] # 0

\* A variant of clone that does not carry the memoized lumas over.
CloneFields_nocache(c, newBg) ==
    [rgb |-> c.rgb, hsl |-> c.hsl, outdated |-> c.outdated, bg |-> newBg,
     luma |-> Undef, lumaYUV |-> Undef]

\* The fields clone() copies from `this` into the new Color; newBg is the
\* clone of the background (0 without one).
CloneFields(c, newBg) ==
    [rgb |-> c.rgb, hsl |-> c.hsl, outdated |-> c.outdated, bg |-> newBg,
     luma |-> c.luma, lumaYUV |-> c.lumaYUV]

\* Color.clone on the color id of heap h: the heap with the new Colors
\* appended, the clone of id first (at Len(h) + 1), each followed by the
\* clone of its background.
Color_clone(h, id) ==
    LET ch == BgChain(h, id)
        n  == Len(ch)
    IN  h \o [i \in 1..n |->
               CloneFields(h[ch[i]], IF i < n THEN Len(h) + i + 1 ELSE 0)]

\* ------------------------------------------------------------------------
\* The state

VARIABLES
    heap,     \* the Color instances, by identity 1..Len(heap)
    handles,  \* the identities the caller holds a reference to
    ops,      \* the number of calls made so far
    last,     \* the last call: [op, rcv, arg, ret]
    prev,     \* the heap before the last call
    last2,    \* the call before the last one
    prev2,    \* the heap before that call
    ghost,    \* history per Color, see Ghost
    conv      \* a chain of conversions: [start, vals], see SpecConv

vars == <<heap, handles, ops, last, prev, last2, prev2, ghost, conv>>

\* Bounds of the model
MaxOps == 3
MaxColors == 4

\* History of a Color, for stating the properties (not program state):
\*   kind, val  the set ("rgb" / "hsl") written by the construction or by the
\*              most recent mutator, and its value as then written
\*   stale      the background was reassigned, or the background color was
\*              mutated, since the luma caches were last cleared
\*   link       the Color instance the caller handed to background(), 0 if
\*              none (a background made from a string or by clone is private)
\*   cloneOf    the Color this one was cloned from, 0 if none
Ghost(kind, val) ==
    [kind |-> kind, val |-> val, stale |-> FALSE, link |-> 0, cloneOf |-> 0]

\* Seeds: the component sets the parsers hand to #fromRGBa / #fromHSLa
RGBSeeds == {<<255, 170, 68, 128>>, <<200, 0, 0, 255>>}
HSLSeeds == {<<33, 100, 63, <<1, 1>>>>, <<180, 60, 40, <<1, 2>>>>}
Seeds == [model : {"rgb"}, bytes : RGBSeeds] \cup [model : {"hsl"}, bytes : HSLSeeds]

\* The strings handed to background(): black, and an hsl() color
BgSeeds == {[model |-> "rgb", bytes |-> <<0, 0, 0, 255>>],
            [model |-> "hsl", bytes |-> <<120, 100, 25, <<1, 1>>>>]}

\* Arguments of the mutators
ContrastArgs == {<<2, 1>>}
BrightnessArgs == {<<1, 2>>}
OpacityArgs == {<<7, 10>>, <<2, 1>>}
RotateArgs == {180, 0 - 180}
SaturateArgs == {<<1, 2>>}

Ids(h) == 1..Len(h)

\* Color.from / fromRgb / fromHex / fromHsl on a parsed seed
Color_from(seed) ==
    IF seed.model = "rgb" THEN Color_fromRGBa(seed.bytes)
    ELSE Color_fromHSLa(seed.bytes)

SeedGhost(seed) == Ghost(seed.model, seed.bytes)

Call(op, rcv, arg, ret) == [op |-> op, rcv |-> rcv, arg |-> arg, ret |-> ret]

\* What every call does to the history variables.
Step(call) ==
    /\ ops' = ops + 1
    /\ last' = call
    /\ prev' = heap
    /\ last2' = last
    /\ prev2' = prev
    /\ UNCHANGED conv

Init ==
    /\ \E seed \in Seeds :
          /\ heap = <<Color_from(seed)>>
          /\ ghost = <<SeedGhost(seed)>>
          /\ last = Call("from", 1, seed, 1)
    /\ handles = {1}
    /\ ops = 0
    /\ prev = <<>>
    /\ last2 = Call("none", 0, 0, 0)
    /\ prev2 = <<>>
    /\ conv = [start |-> "none", vals |-> <<>>]

\* The history after a mutator of id wrote the set `kind`: the set written,
\* the cleared caches of id, and a stale mark on every other Color whose
\* background is id.
Wrote(h, id, kind) ==
    [o \in Ids(h) |->
        IF o = id
        THEN [ghost[o] EXCEPT !.kind = kind,
                              !.val = IF kind = "rgb" THEN h[id].rgb ELSE h[id].hsl,
                              !.stale = FALSE]
        ELSE IF h[o].bg = id THEN [ghost[o] EXCEPT !.stale = TRUE]
        ELSE ghost[o]]


\* ------------------------------------------------------------------------
\* The calls

\* A read: the heap after the getters ran, and the value returned.
Read(op, id, h, ret) ==
    /\ ops < MaxOps
    /\ heap' = h
    /\ UNCHANGED <<ghost, handles>>
    /\ Step(Call(op, id, 0, ret))

\* get bytes (red, green, blue, hex, hexa, rgb, rgba read the same set)
ReadBytes(id) ==
    LET c == GetRGBa(heap[id])
    IN  Read("bytes", id, [heap EXCEPT ![id] = c], c.rgb)

\* get HSLbytes (hue, saturation, lightness, hsl, hsla read the same set)
ReadHSLbytes(id) ==
    LET c == GetHSLa(heap[id])
    IN  Read("HSLbytes", id, [heap EXCEPT ![id] = c], c.hsl)

ReadAlpha(id) == Read("alpha", id, heap, Color_alpha(heap[id]))

ReadLuma(id) ==
    LET h == Color_luma(heap, id)
    IN  Read("luma", id, h, h[id].luma)

ReadLumaYUV(id) ==
    LET h == Color_lumaYUV(heap, id)
    IN  Read("lumaYUV", id, h, h[id].lumaYUV)

\* background(color) with a Color instance: kept by reference
Background(id, x) ==
    /\ ops < MaxOps
    /\ heap' = [heap EXCEPT ![id].bg = x]
    /\ ghost' = [ghost EXCEPT ![id].stale = TRUE, ![id].link = x]
    /\ UNCHANGED handles
    /\ Step(Call("background", id, x, id))

\* background(string): a Color made by Color.from, held by this Color alone
BackgroundStr(id, seed) ==
    /\ ops < MaxOps
    /\ Len(heap) < MaxColors
    /\ heap' = Append([heap EXCEPT ![id].bg = Len(heap) + 1], Color_from(seed))
    /\ ghost' = Append([ghost EXCEPT ![id].stale = TRUE, ![id].link = 0],
                       SeedGhost(seed))
    /\ UNCHANGED handles
    /\ Step(Call("background", id, Len(heap) + 1, id))

\* A mutator of id that wrote the set `kind` and left the heap h.
Mutate(op, id, arg, h, kind) ==
    /\ ops < MaxOps
    /\ heap' = h
    /\ ghost' = Wrote(h, id, kind)
    /\ UNCHANGED handles
    /\ Step(Call(op, id, arg, id))

Contrast(id, value) ==
    Mutate("contrast", id, value,
           [heap EXCEPT ![id] = Color_contrast(heap[id], value)], "rgb")

Brightness(id, value) ==
    Mutate("brightness", id, value,
           [heap EXCEPT ![id] = Color_brightness(heap[id], value)], "rgb")

Opacity(id, value) ==
    Mutate("opacity", id, value,
           [heap EXCEPT ![id] = Color_opacity(heap[id], value)],
           IF preferRGBa(heap[id]) THEN "rgb" ELSE "hsl")

\* solid() changes nothing on a Color without alpha
Solid(id) ==
    IF Color_hasAlpha(heap[id])
    THEN Mutate("solid", id, 0, Color_solid(heap, id), "rgb")
    ELSE /\ ops < MaxOps
         /\ UNCHANGED <<heap, ghost, handles>>
         /\ Step(Call("solid", id, 0, id))

RotateHue(id, deg) ==
    Mutate("rotateHue", id, deg,
           [heap EXCEPT ![id] = Color_rotateHue(heap[id], deg)], "hsl")

Saturate(id, value) ==
    Mutate("saturate", id, value,
           [heap EXCEPT ![id] = Color_saturate(heap[id], value)], "hsl")

Invert(id) ==
    Mutate("invert", id, 0,
           [heap EXCEPT ![id] = Color_invert(heap[id])], "rgb")

InvertHSL(id) ==
    Mutate("invertHSL", id, 0,
           [heap EXCEPT ![id] = Color_invertHSL(heap[id])], "hsl")

\* clone() (and Color.from(color)): the caller holds the clone, not the
\* clones of the backgrounds.  Each new Color starts with the history of the
\* one it copies.
Clone(id) ==
    /\ ops < MaxOps
    /\ CloneReturns(heap, id)
    /\ Len(heap) + Len(BgChain(heap, id)) <= MaxColors
    /\ heap' = Color_clone(heap, id)
    /\ ghost' = ghost \o [i \in 1..Len(BgChain(heap, id)) |->
                    [ghost[BgChain(heap, id)[i]] EXCEPT
                        !.link = 0, !.cloneOf = BgChain(heap, id)[i]]]
    /\ handles' = handles \cup {Len(heap) + 1}
    /\ Step(Call("clone", id, 0, Len(heap) + 1))

Next ==
    \/ \E id \in handles : ReadBytes(id)
    \/ \E id \in handles : ReadHSLbytes(id)
    \/ \E id \in handles : ReadAlpha(id)
    \/ \E id \in handles : ReadLuma(id)
    \/ \E id \in handles : ReadLumaYUV(id)
    \/ \E id \in handles, x \in handles : Background(id, x)
    \/ \E id \in handles, seed \in BgSeeds : BackgroundStr(id, seed)
    \/ \E id \in handles, v \in ContrastArgs : Contrast(id, v)
    \/ \E id \in handles, v \in BrightnessArgs : Brightness(id, v)
    \/ \E id \in handles, v \in OpacityArgs : Opacity(id, v)
    \/ \E id \in handles : Solid(id)
    \/ \E id \in handles, d \in RotateArgs : RotateHue(id, d)
    \/ \E id \in handles, v \in SaturateArgs : Saturate(id, v)
    \/ \E id \in handles : Invert(id)
    \/ \E id \in handles : InvertHSL(id)
    \/ \E id \in handles : Clone(id)

Spec == Init /\ [][Next]_vars


\* ------------------------------------------------------------------------
\* The conversions on their own: a chain of sets, each converted from the
\* one before, starting from an RGBA or an HSLA set.

MaxConv == 2

ConvGrid == {0, 68, 135, 200, 255}
ConvHues == {0, 33, 120, 213, 359}
ConvSats == {50, 100}
ConvLights == {25, 39, 50, 63, 75}

ConvInit ==
    /\ \/ \E r \in ConvGrid, g \in ConvGrid, b \in ConvGrid :
             conv = [start |-> "rgb", vals |-> <<(<<r, g, b, 255>>)>>]
       \/ \E h \in ConvHues, s \in ConvSats, l \in ConvLights :
             conv = [start |-> "hsl", vals |-> <<(<<h, s, l, <<1, 1>>>>)>>]
    /\ heap = <<>>
    /\ ghost = <<>>
    /\ handles = {}
    /\ ops = 0
    /\ last = Call("none", 0, 0, 0)
    /\ last2 = Call("none", 0, 0, 0)
    /\ prev = <<>>
    /\ prev2 = <<>>

\* The set at position i of the chain is an RGBA set
ConvIsRGB(i) == (conv.start = "rgb") = (i % 2 = 1)

ConvToHSL ==
    /\ Len(conv.vals) <= MaxConv
    /\ ConvIsRGB(Len(conv.vals))
    /\ conv' = [conv EXCEPT !.vals = Append(@, HSLa_fromRGBa(@[Len(@)]))]
    /\ UNCHANGED <<heap, handles, ops, last, prev, last2, prev2, ghost>>

ConvToRGB ==
    /\ Len(conv.vals) <= MaxConv
    /\ ~ConvIsRGB(Len(conv.vals))
    /\ conv' = [conv EXCEPT !.vals = Append(@, RGBa_fromHSLa(@[Len(@)]))]
    /\ UNCHANGED <<heap, handles, ops, last, prev, last2, prev2, ghost>>

ConvNext == ConvToHSL \/ ConvToRGB

SpecConv == ConvInit /\ [][ConvNext]_vars

\* ------------------------------------------------------------------------
\* Construction: one Color made by the constructor or from a string, then
\* calls on it with arguments at and beyond the ends of their ranges.

\* #outdated as the constructor leaves it: undefined
NoFlag == 0 - 2

\* new Color(): no set, no flag
Color_new ==
    [rgb |-> NoSet, hsl |-> NoSet, outdated |-> NoFlag, bg |-> 0,
     luma |-> Undef, lumaYUV |-> Undef]

\* "rgb(255,170,68)", "rgba(255,170,68,0.5)", "rgba(255,170,68,0)",
\* "rgb(300,0,0)", "rgb(a,b,c)", "rgb(1,2)"
RgbStrings ==
    {<<Num(255, 1), Num(170, 1), Num(68, 1)>>,
     <<Num(255, 1), Num(170, 1), Num(68, 1), Num(1, 2)>>,
     <<Num(255, 1), Num(170, 1), Num(68, 1), Num(0, 1)>>,
     <<Num(300, 1), Num(0, 1), Num(0, 1)>>,
     <<Txt, Txt, Txt>>,
     <<Num(1, 1), Num(2, 1)>>}

\* "#fa4", "#ffaa4480", "#ggg", "#ffaa4"
HexStrings ==
    {<<15, 10, 4>>,
     <<15, 15, 10, 10, 4, 4, 8, 0>>,
     <<NotHex, NotHex, NotHex>>,
     <<15, 15, 10, 10, 4>>}

\* "hsl(33 100% 63%)", "hsl(180 60% 40% / 0.5)", "hsl(180 60% 40% / 50%)",
\* "hsl(180 60% 40% / 0)", "hsl(400 120% 40%)", "hsl(x y z)",
\* "hsl(33,100%,63%)"
HslStrings ==
    {[data |-> <<Num(33, 1), Num(100, 1), Num(63, 1)>>, a |-> Missing],
     [data |-> <<Num(180, 1), Num(60, 1), Num(40, 1), Txt>>, a |-> Num(1, 2)],
     [data |-> <<Num(180, 1), Num(60, 1), Num(40, 1), Txt>>, a |-> Num(50, 1)],
     [data |-> <<Num(180, 1), Num(60, 1), Num(40, 1), Txt>>, a |-> Num(0, 1)],
     [data |-> <<Num(400, 1), Num(120, 1), Num(40, 1)>>, a |-> Missing],
     [data |-> <<Txt, Txt, Txt>>, a |-> Missing],
     [data |-> <<Num(33, 1)>>, a |-> Missing]}

\* Arguments at the identity and beyond the ends of the ranges
IdentityArgs == {<<1, 1>>}
WideOpacityArgs == {<<0 - 1, 1>>, <<2, 1>>, <<7, 10>>}
WideRotateArgs == {540}

\* The strings handed to background(): "#fff" and "#000"
FromBgSeeds == {[model |-> "rgb", bytes |-> <<255, 255, 255, 255>>],
                [model |-> "rgb", bytes |-> <<0, 0, 0, 255>>]}

FromInit ==
    /\ heap = <<>>
    /\ ghost = <<>>
    /\ handles = {}
    /\ ops = 0
    /\ last = Call("none", 0, 0, 0)
    /\ last2 = Call("none", 0, 0, 0)
    /\ prev = <<>>
    /\ prev2 = <<>>
    /\ conv = [start |-> "none", vals |-> <<>>]

\* A construction: the first call; `made` is the Color, or Thrown
Construct(op, str, model, made) ==
    /\ ops < MaxOps
    /\ heap = <<>>
    /\ last.op = "none"
    /\ IF made.ok
       THEN /\ heap' = <<made.val>>
            /\ ghost' = <<Ghost(model, IF model = "rgb" THEN made.val.rgb
                                                       ELSE made.val.hsl)>>
            /\ handles' = {1}
            /\ Step(Call(op, 0, str, 1))
       ELSE /\ UNCHANGED <<heap, ghost, handles>>
            /\ Step(Call(op, 0, str, 0))

\* new Color()
New == Construct("new", 0, "rgb", Parsed(Color_new))

\* Color.fromRgb (and Color.from on a string that starts with "rgb")
FromRgb(str) ==
    LET p == rgbToRGB(str)
    IN  Construct("fromRgb", str, "rgb",
                  IF p.ok THEN Parsed(Color_fromRGBa(p.val)) ELSE Thrown)

\* Color.fromHex (and Color.from on a string that starts with "#")
FromHex(str) ==
    LET p == hexToRGB(str)
    IN  Construct("fromHex", str, "rgb",
                  IF p.ok THEN Parsed(Color_fromRGBa(p.val)) ELSE Thrown)

\* Color.fromHsl (and Color.from on a string that starts with "hsl")
FromHsl(str) ==
    LET p == hslToHSL(str.data, str.a)
    IN  Construct("fromHsl", str, "hsl",
                  IF p.ok THEN Parsed(Color_fromHSLa(p.val)) ELSE Thrown)

\* The set of Color id that its flag does not mark outdated is there and
\* holds numbers: the calls on it neither dereference a missing set nor
\* compute with NaN.  Calls on other Colors are not followed further.
Sound(id) ==
    LET c == heap[id]
    IN  /\ c.outdated # NoFlag
        /\ c.outdated # 0 => (c.rgb # NoSet /\ \A i \in 1..3 : c.rgb[i] # NaN)
        /\ c.outdated # 1 => (c.hsl # NoSet /\ \A i \in 1..3 : c.hsl[i] # NaN)

FromNext ==
    \/ New
    \/ \E str \in RgbStrings : FromRgb(str)
    \/ \E str \in HexStrings : FromHex(str)
    \/ \E str \in HslStrings : FromHsl(str)
    \/ \E id \in handles : Sound(id) /\ ReadBytes(id)
    \/ \E id \in handles : Sound(id) /\ ReadHSLbytes(id)
    \/ \E id \in handles : Sound(id) /\ ReadAlpha(id)
    \/ \E id \in handles, v \in IdentityArgs : Sound(id) /\ Contrast(id, v)
    \/ \E id \in handles, v \in IdentityArgs : Sound(id) /\ Brightness(id, v)
    \/ \E id \in handles, v \in IdentityArgs : Sound(id) /\ Saturate(id, v)
    \/ \E id \in handles, v \in WideOpacityArgs : Sound(id) /\ Opacity(id, v)
    \/ \E id \in handles, d \in WideRotateArgs : Sound(id) /\ RotateHue(id, d)
    \/ \E id \in handles : Sound(id) /\ Invert(id)
    \/ \E id \in handles : Sound(id) /\ Solid(id)
    \/ \E id \in handles, seed \in FromBgSeeds :
          Sound(id) /\ BackgroundStr(id, seed)

SpecFrom == FromInit /\ [][FromNext]_vars

\* ------------------------------------------------------------------------
\* index.ts: the typed-array Color and its functions.  A Color is the tuple
\* of its eight Uint16 elements <<R, G, B, A, H, S, L, MODEL>> (element i of
\* the source is element i + 1 here).  A function that reads a model first
\* brings it up to date in its argument; the functions that return a Color
\* build a new one.  A store truncates, so here the doubles of the source and
\* the exact values of the model can part by one where the exact value is an
\* integer and the double lies just below it: grayscale() of the gray 183
\* stores 182, and hsl() of (255, 243, 228) stores the saturation 99, where
\* the model has 183 and 100.  The properties below about MODEL, about the
\* ranges of H, S and L and about the arguments of a call do not turn on
\* such a unit.

ixR == 1
ixG == 2
ixB == 3
ixA == 4
ixH == 5
ixS == 6
ixL == 7
ixMODEL == 8

ixRGB == 1
ixHSL == 2

\* A store into a Uint16Array element: the number n / d truncated towards
\* zero, modulo 2^16; a division by zero is an infinity or NaN, stored as 0.
ToUint16(n, d) ==
    IF d = 0 THEN 0
    ELSE LET nn == IF d < 0 THEN 0 - n ELSE n
             dd == Abs(d)
         IN  (IF nn >= 0 THEN nn \div dd ELSE 0 - ((0 - nn) \div dd)) % 65536

\* color[MODEL] & bit, and color[MODEL] | bit, for bit = ixRGB or ixHSL
HasModel(m, bit) == (m \div bit) % 2 = 1
OrModel(m, bit) == IF HasModel(m, bit) THEN m ELSE m + bit

\* new Color(r, g, b, a), the arguments being rationals
ix_Color(r, g, b, a) ==
    <<ToUint16(r[1], r[2]), ToUint16(g[1], g[2]), ToUint16(b[1], b[2]),
      ToUint16(a[1], a[2]), 0, 0, 0, ixRGB>>

\* new Color(color): the eight elements are copied
ix_copy(color) == color

\* What hsl() stores from the RGB elements r, g, b: <<H, S, L>>
ix_hslOf(r, g, b) ==
    LET mx == Max2(r, Max2(g, b))
        mn == Min2(r, Min2(g, b))
        d  == mx - mn
        hn == IF d = 0 THEN 0
              ELSE IF mx = r THEN g - b
              ELSE IF mx = g THEN (b - r) + 2 * d
              ELSE (r - g) + 4 * d
    IN  <<IF d = 0 THEN 0
          ELSE IF hn < 0 THEN ToUint16(60 * hn + 360 * d, d)
          ELSE ToUint16(60 * hn, d),
          IF d = 0 THEN 0
          ELSE IF 2 * mx <= 255 THEN ToUint16(100 * d, mx + mn)
          ELSE ToUint16(100 * d, 510 - (mx + mn)),
          ToUint16(100 * (mx + mn), 510)>>

\* A variant of hsl() that assigns HSL to MODEL, dropping the RGB bit.
ix_hsl_only(color) ==
    IF HasModel(color[ixMODEL], ixHSL) THEN color
    ELSE LET t == ix_hslOf(color[ixR], color[ixG], color[ixB])
         IN  [color EXCEPT ![ixH] = t[1], ![ixS] = t[2], ![ixL] = t[3],
                           ![ixMODEL] = ixHSL]

\* hsl(color): the color with its HSL model up to date
ix_hsl(color) ==
    IF HasModel(color[ixMODEL], ixHSL) THEN color
    ELSE LET t == ix_hslOf(color[ixR], color[ixG], color[ixB])
         IN  [color EXCEPT ![ixH] = t[1], ![ixS] = t[2], ![ixL] = t[3],
                           ![ixMODEL] = OrModel(color[ixMODEL], ixHSL)]

\* Sums and products modulo 20000 * 2^16, for the elements that hold any
\* Uint16: the products of rgb() then pass the range of the checker's
\* integers.  x, y, a are below the modulus.
ixWrap == 1310720000

AddMod(x, y) == IF x >= ixWrap - y THEN x - (ixWrap - y) ELSE x + y

RECURSIVE MulMod(_, _)
MulMod(a, b) ==
    IF b = 0 THEN 0
    ELSE LET half == MulMod(a, b \div 2)
             dbl == AddMod(half, half)
         IN  IF b % 2 = 1 THEN AddMod(dbl, a) ELSE dbl

\* The element rgb() stores for the channel with offset n (0, 8, 4):
\* 255 * (l - s * max(-1, min(k - 3, 9 - k, 1))) with l = L / 100,
\* s = (S / 100) * min(l, 1 - l), k = (H / 30 + n) % 12, that is
\* 17 * (3000 L - S * min(L, 100 - L) * m) / 20000 with m in thirtieths,
\* truncated towards zero, modulo 2^16.
ix_channel(n, h, s, l) ==
    LET k == (30 * n + h) % 360
        m == Max2(0 - 30, Min2(Min2(k - 90, 270 - k), 30))
        f == Min2(l, 100 - l) * m
        a == 3000 * l
        sf == MulMod(Abs(f), s)
        neg == f > 0 /\ s > a \div f
        mag == IF f <= 0 THEN AddMod(a, sf)
               ELSE IF neg THEN (sf - a) % ixWrap
               ELSE (a - sf) % ixWrap
        q == MulMod(mag, 17) \div 20000
    IN  IF neg THEN (65536 - q) % 65536 ELSE q

\* rgb(color): the color with its RGB model up to date
ix_rgb(color) ==
    IF HasModel(color[ixMODEL], ixRGB) THEN color
    ELSE LET h == color[ixH]
             s == color[ixS]
             l == color[ixL]
         IN  [color EXCEPT ![ixR] = ix_channel(0, h, s, l),
                           ![ixG] = ix_channel(8, h, s, l),
                           ![ixB] = ix_channel(4, h, s, l),
                           ![ixMODEL] = OrModel(color[ixMODEL], ixRGB)]

\* luma(color), times 10000, of a color whose RGB model is up to date
ix_luma(color) == luma(<<color[ixR], color[ixG], color[ixB]>>, FALSE)

\* contrast(a, b) as the rational <<n, d>>: the lumas over 255, 0.05 added
\* to each (127500 in units of 1 / 2550000), the larger over the smaller.
ix_ratio(la, lb) == <<Max2(la, lb) + 127500, Min2(la, lb) + 127500>>

ix_contrast(a, b) == ix_ratio(ix_luma(ix_rgb(a)), ix_luma(ix_rgb(b)))

\* mix(into, from, rstren): the new Color; into and from have run rgb()
ix_mix(into, from, rstren) ==
    LET i == ix_rgb(into)
        f == ix_rgb(from)
        p == rstren[1]
        q == rstren[2]
    IN  ix_Color(<<i[ixR] * (q - p) + f[ixR] * p, q>>,
                 <<i[ixG] * (q - p) + f[ixG] * p, q>>,
                 <<i[ixB] * (q - p) + f[ixB] * p, q>>,
                 <<i[ixA] * (q - p) + f[ixA] * p, q>>)

\* fill(color, background): the new Color
ix_fill(color, background) ==
    LET c == ix_copy(color)
    IN  IF c[ixA] = 255 THEN c
        ELSE ix_mix([c EXCEPT ![ixA] = 255], background,
                    <<255 - c[ixA], 255>>)

\* new Color(): white, the default background of fill
ix_White == ix_Color(<<255, 1>>, <<255, 1>>, <<255, 1>>, <<255, 1>>)

\* opacity(color, stren): the new Color
ix_opacity(color, stren) ==
    [ix_copy(color) EXCEPT ![ixA] = ToUint16(stren[1] * 255, stren[2])]

\* rotate(color, deg): the new Color.  The assignment expression has the
\* value of its right-hand side, the element stores it as a Uint16.
ix_rotate(color, deg) ==
    LET c == ix_copy(ix_hsl(color))
        v == JsRem(c[ixH] + deg, 360)
        stored == ToUint16(v, 1)
    IN  [c EXCEPT ![ixH] = IF v < 0 THEN ToUint16(stored + 360, 1) ELSE stored,
                  ![ixMODEL] = ixHSL]

\* invertHsl(color): the new Color
ix_invertHsl(color) ==
    LET c == ix_copy(ix_hsl(color))
    IN  [c EXCEPT ![ixH] = ToUint16(JsRem(c[ixH] + 180, 360), 1),
                  ![ixS] = ToUint16(100 - c[ixS], 1),
                  ![ixL] = ToUint16(100 - c[ixL], 1),
                  ![ixMODEL] = ixHSL]

\* lumaYUV(color), times 10000, of a color whose RGB model is up to date
ix_lumaYUV(color) == luma(<<color[ixR], color[ixG], color[ixB]>>, TRUE)

\* grayscale(color): the new Color
ix_grayscale(color) ==
    LET c == ix_rgb(color)
        gray == <<ix_lumaYUV(c), 10000>>
    IN  ix_Color(gray, gray, gray, <<c[ixA], 1>>)

\* A variant of hue that adds the HSL bit to MODEL and keeps the RGB bit.
ix_hue_keep(color, deg) ==
    LET c == ix_copy(ix_hsl(color))
    IN  [c EXCEPT ![ixH] = ToUint16(deg, 1),
                  ![ixMODEL] = OrModel(c[ixMODEL], ixHSL)]

\* hue(color, deg), saturation(color, perc), lightness(color, perc): the new
\* Color
ix_hue(color, deg) ==
    [ix_copy(ix_hsl(color)) EXCEPT ![ixH] = ToUint16(deg, 1),
                                   ![ixMODEL] = ixHSL]

ix_saturation(color, perc) ==
    [ix_copy(ix_hsl(color)) EXCEPT ![ixS] = ToUint16(perc, 1),
                                   ![ixMODEL] = ixHSL]

ix_lightness(color, perc) ==
    [ix_copy(ix_hsl(color)) EXCEPT ![ixL] = ToUint16(perc, 1),
                                   ![ixMODEL] = ixHSL]

\* saturate(color, stren): Math.min(100, S * stren), stren = p / q
ix_saturate(color, stren) ==
    LET c == ix_copy(ix_hsl(color))
        n == c[ixS] * stren[1]
    IN  [c EXCEPT ![ixS] = IF n >= 100 * stren[2] THEN 100
                           ELSE ToUint16(n, stren[2]),
                  ![ixMODEL] = ixHSL]

\* lighten(color, stren): Math.min(100, L * (1 + stren))
ix_lighten(color, stren) ==
    LET c == ix_copy(ix_hsl(color))
        n == c[ixL] * (stren[2] + stren[1])
    IN  [c EXCEPT ![ixL] = IF n >= 100 * stren[2] THEN 100
                           ELSE ToUint16(n, stren[2]),
                  ![ixMODEL] = ixHSL]

\* darken(color, stren): Math.max(0, L * (1 - stren))
ix_darken(color, stren) ==
    LET c == ix_copy(ix_hsl(color))
        n == c[ixL] * (stren[2] - stren[1])
    IN  [c EXCEPT ![ixL] = IF n <= 0 THEN 0 ELSE ToUint16(n, stren[2]),
                  ![ixMODEL] = ixHSL]

\* invert(color): the new Color
ix_invert(color) ==
    LET c == ix_rgb(color)
    IN  ix_Color(<<255 - c[ixR], 1>>, <<255 - c[ixG], 1>>,
                 <<255 - c[ixB], 1>>, <<c[ixA], 1>>)

\* bytes(color): the Uint8Array returned, each element stored modulo 2^8
ix_bytes(color) ==
    LET c == ix_rgb(color)
    IN  <<c[ixR] % 256, c[ixG] % 256, c[ixB] % 256, c[ixA] % 256>>

\* bytesHsl(color): the Uint16Array returned
ix_bytesHsl(color) ==
    LET c == ix_hsl(color)
    IN  <<c[ixH], c[ixS], c[ixL], c[ixA]>>

\* eq(a, b)
ix_eq(a, b) ==
    LET x == ix_rgb(a)
        y == ix_rgb(b)
    IN  /\ x[ixR] = y[ixR] /\ x[ixG] = y[ixG]
        /\ x[ixB] = y[ixB] /\ x[ixA] = y[ixA]

\* fromHex: the string must be "#" and 3 or 4 hex digits, once or twice
\* over; a string shorter than 6 is read digit by digit, a longer one pair
\* by pair, and alpha is read only from a string of length 5 or 9.
ix_fromHex(hex) ==
    IF ~(Len(hex) \in {3, 4, 6, 7, 8} /\ \A i \in 1..Len(hex) : hex[i] < NotHex)
    THEN Thrown
    ELSE IF Len(hex) + 1 < 6
    THEN Parsed(ix_Color(<<17 * hex[1], 1>>, <<17 * hex[2], 1>>,
                         <<17 * hex[3], 1>>,
                         IF Len(hex) + 1 = 5 THEN <<17 * hex[4], 1>>
                         ELSE <<255, 1>>))
    ELSE Parsed(ix_Color(<<16 * hex[1] + hex[2], 1>>,
                         <<16 * hex[3] + hex[4], 1>>,
                         <<16 * hex[5] + hex[6], 1>>,
                         IF Len(hex) + 1 = 9 THEN <<16 * hex[7] + hex[8], 1>>
                         ELSE <<255, 1>>))

\* A token is a run of digits (\d+)
IsDigits(tok) == tok.k = "num" /\ tok.v[1] >= 0 /\ tok.v[2] = 1

\* fromRgb: three runs of digits and an optional unsigned decimal; alpha is
\* Math.round(parseFloat(..) * 255) when the decimal is there, else 255
ix_fromRgb(rgb) ==
    IF ~(/\ Len(rgb) \in {3, 4}
         /\ \A i \in 1..3 : IsDigits(rgb[i])
         /\ Len(rgb) = 4 => (rgb[4].k = "num" /\ rgb[4].v[1] >= 0))
    THEN Thrown
    ELSE Parsed(ix_Color(rgb[1].v, rgb[2].v, rgb[3].v,
                         IF Len(rgb) = 4
                         THEN <<Round(rgb[4].v[1] * 255, rgb[4].v[2]), 1>>
                         ELSE <<255, 1>>))

\* Bound: the number of typed-array Colors
MaxIx == 3

\* new Color(r, g, b, a): white, black, an orange at half opacity, and a
\* fully transparent black
IxSeeds == {<<255, 255, 255, 255>>, <<0, 0, 0, 255>>,
            <<255, 170, 68, 128>>, <<0, 0, 0, 0>>}
IxOpacityArgs == {<<1, 2>>}
IxRotateArgs == {180, 0 - 180}

ix_seed(seed) ==
    ix_Color(<<seed[1], 1>>, <<seed[2], 1>>, <<seed[3], 1>>, <<seed[4], 1>>)

IxInit ==
    /\ \E seed \in IxSeeds :
          /\ heap = <<ix_seed(seed)>>
          /\ last = Call("Color", 0, seed, 1)
    /\ handles = {1}
    /\ ghost = <<>>
    /\ ops = 0
    /\ last2 = Call("none", 0, 0, 0)
    /\ prev = <<>>
    /\ prev2 = <<>>
    /\ conv = [start |-> "none", vals |-> <<>>]

\* A call that left the heap h
IxCall(call, h) ==
    /\ ops < MaxOps
    /\ heap' = h
    /\ handles' = Ids(h)
    /\ UNCHANGED ghost
    /\ Step(call)

\* A call on `id` that returns the new Color made; h is the heap with the
\* models the call brought up to date in its arguments.
IxMake(op, id, arg, h, made) ==
    /\ Len(heap) < MaxIx
    /\ IxCall(Call(op, id, arg, Len(heap) + 1), Append(h, made))

IxNew(seed) == IxMake("Color", 0, seed, heap, ix_seed(seed))

IxOpacity(id, stren) ==
    IxMake("opacity", id, stren, heap, ix_opacity(heap[id], stren))

IxRotate(id, deg) ==
    IxMake("rotate", id, deg, [heap EXCEPT ![id] = ix_hsl(heap[id])],
           ix_rotate(heap[id], deg))

IxInvertHsl(id) ==
    IxMake("invertHsl", id, 0, [heap EXCEPT ![id] = ix_hsl(heap[id])],
           ix_invertHsl(heap[id]))

\* fill(color): the background is a new white Color
IxFill(id) == IxMake("fill", id, 0, heap, ix_fill(heap[id], ix_White))

\* fill(color, background): rgb() runs on the background when color has
\* alpha
IxFillOn(id, bg) ==
    IxMake("fill", id, bg,
           IF heap[id][ixA] = 255 THEN heap
           ELSE [heap EXCEPT ![bg] = ix_rgb(heap[bg])],
           ix_fill(heap[id], heap[bg]))

\* contrast(a, b): luma runs rgb() on a, then on b
IxContrast(a, b) ==
    IxCall(Call("contrast", a, b, ix_contrast(heap[a], heap[b])),
           [i \in Ids(heap) |->
               IF i = a \/ i = b THEN ix_rgb(heap[i]) ELSE heap[i]])

IxNext ==
    \/ \E seed \in IxSeeds : IxNew(seed)
    \/ \E id \in handles, v \in IxOpacityArgs : IxOpacity(id, v)
    \/ \E id \in handles, d \in IxRotateArgs : IxRotate(id, d)
    \/ \E id \in handles : IxInvertHsl(id)
    \/ \E id \in handles : IxFill(id)
    \/ \E id \in handles, bg \in handles : IxFillOn(id, bg)
    \/ \E a \in handles, b \in handles : IxContrast(a, b)

SpecIx == IxInit /\ [][IxNext]_vars

\* ------------------------------------------------------------------------
\* index.ts: every exported function, on Colors made by the constructor and
\* the parsers, with arguments at the ends of their documented ranges.

\* Bound: the number of calls of this specification
MaxIxOps == 2

\* "#fa4", "#ffaa4480", "#ggg"
IxHexStrings ==
    {<<15, 10, 4>>, <<15, 15, 10, 10, 4, 4, 8, 0>>, <<NotHex, NotHex, NotHex>>}

\* "rgba(255,170,68,0.5)", "rgb(a,b,c)"
IxRgbStrings ==
    {<<Num(255, 1), Num(170, 1), Num(68, 1), Num(1, 2)>>, <<Txt, Txt, Txt>>}

\* deg of hue: 0 to 360; perc: 0 to 100; deg of rotate: -360 to 360; stren
\* of saturate, lighten, darken: -1 to 1; rstren of mix: 0 to 1
IxHueArgs == {0, 360}
IxPercArgs == {0, 100}
IxFullRotateArgs == {0 - 360, 180, 360}
IxStrenArgs == {<<0 - 1, 1>>, <<1, 1>>}
IxMixArgs == {<<1, 2>>}

IxFew == ops < MaxIxOps

\* The heap after hsl() / rgb() ran on the Colors of the set `on`
IxHslOn(on) == [i \in Ids(heap) |-> IF i \in on THEN ix_hsl(heap[i]) ELSE heap[i]]
IxRgbOn(on) == [i \in Ids(heap) |-> IF i \in on THEN ix_rgb(heap[i]) ELSE heap[i]]

\* A parser call: the new Color, or the exception
IxParse(op, str, made) ==
    IF made.ok THEN IxMake(op, 0, str, heap, made.val)
    ELSE IxCall(Call(op, 0, str, 0), heap)

IxFromHex(hex) == IxParse("fromHex", hex, ix_fromHex(hex))

IxFromRgb(str) == IxParse("fromRgb", str, ix_fromRgb(str))

IxHsl(id) == IxCall(Call("hsl", id, 0, 0), IxHslOn({id}))

IxRgb(id) == IxCall(Call("rgb", id, 0, 0), IxRgbOn({id}))

IxLuma(id) ==
    IxCall(Call("luma", id, 0, ix_luma(ix_rgb(heap[id]))), IxRgbOn({id}))

IxBytes(id) == IxCall(Call("bytes", id, 0, ix_bytes(heap[id])), IxRgbOn({id}))

IxBytesHsl(id) ==
    IxCall(Call("bytesHsl", id, 0, ix_bytesHsl(heap[id])), IxHslOn({id}))

IxEq(a, b) ==
    IxCall(Call("eq", a, b, ix_eq(heap[a], heap[b])), IxRgbOn({a, b}))

\* mix(into, from, rstren): the argument recorded is <<from, rstren>>
IxMix(a, b, rstren) ==
    IxMake("mix", a, <<b, rstren>>, IxRgbOn({a, b}),
           ix_mix(heap[a], heap[b], rstren))

IxGrayscale(id) ==
    IxMake("grayscale", id, 0, IxRgbOn({id}), ix_grayscale(heap[id]))

IxInvert(id) == IxMake("invert", id, 0, IxRgbOn({id}), ix_invert(heap[id]))

IxHue(id, deg) == IxMake("hue", id, deg, IxHslOn({id}), ix_hue(heap[id], deg))

IxSaturation(id, perc) ==
    IxMake("saturation", id, perc, IxHslOn({id}), ix_saturation(heap[id], perc))

IxLightness(id, perc) ==
    IxMake("lightness", id, perc, IxHslOn({id}), ix_lightness(heap[id], perc))

IxSaturate(id, stren) ==
    IxMake("saturate", id, stren, IxHslOn({id}), ix_saturate(heap[id], stren))

IxLighten(id, stren) ==
    IxMake("lighten", id, stren, IxHslOn({id}), ix_lighten(heap[id], stren))

IxDarken(id, stren) ==
    IxMake("darken", id, stren, IxHslOn({id}), ix_darken(heap[id], stren))

IxAllNext ==
    \/ \E seed \in IxSeeds : IxFew /\ IxNew(seed)
    \/ \E hex \in IxHexStrings : IxFew /\ IxFromHex(hex)
    \/ \E str \in IxRgbStrings : IxFew /\ IxFromRgb(str)
    \/ \E id \in handles : IxFew /\ IxHsl(id)
    \/ \E id \in handles : IxFew /\ IxRgb(id)
    \/ \E id \in handles : IxFew /\ IxLuma(id)
    \/ \E id \in handles : IxFew /\ IxBytes(id)
    \/ \E id \in handles : IxFew /\ IxBytesHsl(id)
    \/ \E a \in handles, b \in handles : IxFew /\ IxEq(a, b)
    \/ \E a \in handles, b \in handles, v \in IxMixArgs : IxFew /\ IxMix(a, b, v)
    \/ \E id \in handles : IxFew /\ IxFill(id)
    \/ \E id \in handles, bg \in handles : IxFew /\ IxFillOn(id, bg)
    \/ \E id \in handles, v \in IxOpacityArgs : IxFew /\ IxOpacity(id, v)
    \/ \E id \in handles, d \in IxHueArgs : IxFew /\ IxHue(id, d)
    \/ \E id \in handles, p \in IxPercArgs : IxFew /\ IxSaturation(id, p)
    \/ \E id \in handles, p \in IxPercArgs : IxFew /\ IxLightness(id, p)
    \/ \E id \in handles, d \in IxFullRotateArgs : IxFew /\ IxRotate(id, d)
    \/ \E id \in handles, v \in IxStrenArgs : IxFew /\ IxSaturate(id, v)
    \/ \E id \in handles, v \in IxStrenArgs : IxFew /\ IxLighten(id, v)
    \/ \E id \in handles, v \in IxStrenArgs : IxFew /\ IxDarken(id, v)
    \/ \E id \in handles : IxFew /\ IxInvert(id)
    \/ \E id \in handles : IxFew /\ IxInvertHsl(id)
    \/ \E id \in handles : IxFew /\ IxGrayscale(id)

SpecIxAll == IxInit /\ [][IxAllNext]_vars

\* ------------------------------------------------------------------------
\* Two Colors made from the same seed.  Every mutator call on Color 1 is
\* followed at once by the same call on Color 2, so that the two always get
\* the same sequence of mutators; the reads fall on either Color, between
\* the pairs.  The two Colors share nothing, so the order of the calls on
\* one relative to the calls on the other makes no difference.

PairInit ==
    /\ \E seed \in Seeds :
          /\ heap = <<Color_from(seed), Color_from(seed)>>
          /\ ghost = <<SeedGhost(seed), SeedGhost(seed)>>
          /\ last = Call("from", 2, seed, 2)
    /\ handles = {1, 2}
    /\ ops = 0
    /\ prev = <<>>
    /\ last2 = Call("none", 0, 0, 0)
    /\ prev2 = <<>>
    /\ conv = [start |-> "none", vals |-> <<>>]

\* The mutator calls made on the two Colors: name and argument
PairCalls ==
    ({"contrast"} \X ContrastArgs) \cup ({"brightness"} \X BrightnessArgs)
        \cup ({"opacity"} \X OpacityArgs) \cup ({"rotateHue"} \X RotateArgs)
        \cup ({"saturate"} \X SaturateArgs)
        \cup ({"solid", "invert", "invertHSL"} \X {0})

\* The call `c` made on Color id
PairCall(id, c) ==
    \/ c[1] = "contrast" /\ Contrast(id, c[2])
    \/ c[1] = "brightness" /\ Brightness(id, c[2])
    \/ c[1] = "opacity" /\ Opacity(id, c[2])
    \/ c[1] = "rotateHue" /\ RotateHue(id, c[2])
    \/ c[1] = "saturate" /\ Saturate(id, c[2])
    \/ c[1] = "solid" /\ Solid(id)
    \/ c[1] = "invert" /\ Invert(id)
    \/ c[1] = "invertHSL" /\ InvertHSL(id)

\* Color 1 got a mutator call that Color 2 has not got yet
Pending == last.op \in {c[1] : c \in PairCalls} /\ last.rcv = 1

PairFirst == \E c \in PairCalls : ~Pending /\ PairCall(1, c)

PairSecond == Pending /\ PairCall(2, <<last.op, last.arg>>)

PairNext ==
    \/ PairFirst
    \/ PairSecond
    \/ \E id \in handles : ~Pending /\ ReadBytes(id)
    \/ \E id \in handles : ~Pending /\ ReadHSLbytes(id)
    \/ \E id \in handles : ~Pending /\ ReadAlpha(id)
    \/ \E id \in handles : ~Pending /\ ReadLuma(id)
    \/ \E id \in handles : ~Pending /\ ReadLumaYUV(id)

SpecPair == PairInit /\ [][PairNext]_vars

\* ------------------------------------------------------------------------
\* Properties

Mutators == {"contrast", "brightness", "opacity", "solid",
             "rotateHue", "saturate", "invert", "invertHSL"}
HSLMutators == {"rotateHue", "saturate", "invertHSL"}

\* The RGBA set / HSLA set an accessor of Color id should answer: the set as
\* last written, or the conversion of the other set as last written.
ExpectRGB(id) ==
    IF ghost[id].kind = "rgb" THEN ghost[id].val
    ELSE RGBa_fromHSLa(ghost[id].val)

ExpectHSL(id) ==
    IF ghost[id].kind = "hsl" THEN ghost[id].val
    ELSE HSLa_fromRGBa(ghost[id].val)

\* C1: freshness.  In every reachable state, for every Color, the RGBA set
\* the RGB accessors answer is the RGBA set as last written by a mutator (or
\* the seed), or the conversion of the HSLA set the most recent mutator
\* wrote, and likewise for the HSL accessors; and the value the last bytes /
\* HSLbytes read returned was that set.
Freshness ==
    /\ \A id \in Ids(heap) :
          /\ GetRGBa(heap[id]).rgb = ExpectRGB(id)
          /\ GetHSLa(heap[id]).hsl = ExpectHSL(id)
    /\ last.op = "bytes" => last.ret = ExpectRGB(last.rcv)
    /\ last.op = "HSLbytes" => last.ret = ExpectHSL(last.rcv)

\* C1 witness: an RGB read right after an HSL-native mutator, on a Color
\* that held an RGBA set before the mutator, answered a set different from
\* that older one.
FreshnessWitness ==
    /\ last.op = "bytes"
    /\ last2.op \in HSLMutators
    /\ last2.rcv = last.rcv
    /\ prev2[last.rcv].rgb # NoSet
    /\ last.ret # prev2[last.rcv].rgb

\* C2: luma cache coherence under mutators.  When the background of a Color
\* was neither reassigned nor mutated since its caches were last cleared, a
\* luma (lumaYUV) read returns the value computed afresh from the current
\* RGBA bytes and background.
LumaCoherent ==
    /\ (last.op = "luma" /\ ~ghost[last.rcv].stale)
          => last.ret = LumaValue(heap, last.rcv, FALSE)
    /\ (last.op = "lumaYUV" /\ ~ghost[last.rcv].stale)
          => last.ret = LumaValue(heap, last.rcv, TRUE)

\* C2 witness: a luma read after a mutator, where the luma was memoized
\* before the mutator and the read returned another value.
LumaCoherentWitness ==
    /\ last.op = "luma"
    /\ last2.op \in Mutators
    /\ last2.rcv = last.rcv
    /\ ~Falsy(prev2[last.rcv].luma)
    /\ last.ret # prev2[last.rcv].luma
    /\ ~ghost[last.rcv].stale

\* C3: a luma read that follows background(x) on a Color with alpha < 1
\* returns the luma composited against x.
BackgroundClearsLuma ==
    (/\ last.op = "luma"
     /\ last2.op = "background"
     /\ last2.rcv = last.rcv
     /\ Color_hasAlpha(heap[last.rcv]))
        => last.ret = LumaValue(heap, last.rcv, FALSE)

\* C4: for a Color with alpha < 1 (its background untouched since the caches
\* were cleared), luma and lumaYUV are the weighted channel sums of the color
\* after solid() against its background.
LumaIsComposited ==
    /\ (last.op = "luma" /\ Color_hasAlpha(heap[last.rcv])
           /\ ~ghost[last.rcv].stale)
          => last.ret = luma(Color_solid(heap, last.rcv)[last.rcv].rgb, FALSE)
    /\ (last.op = "lumaYUV" /\ Color_hasAlpha(heap[last.rcv])
           /\ ~ghost[last.rcv].stale)
          => last.ret = luma(Color_solid(heap, last.rcv)[last.rcv].rgb, TRUE)

\* What the accessors of Color id answer in heap h.
Obs(h, id) ==
    [bytes |-> GetRGBa(h[id]).rgb,
     hsl |-> GetHSLa(h[id]).hsl,
     alpha |-> Color_alpha(h[id]),
     luma |-> Color_luma(h, id)[id].luma,
     lumaYUV |-> Color_lumaYUV(h, id)[id].lumaYUV]

\* The Colors reached from id through the backgrounds the caller handed in
\* by reference (id itself included).
RECURSIVE LinkReach(_, _)
LinkReach(id, seen) ==
    IF id = 0 \/ id \in seen THEN seen
    ELSE LinkReach(ghost[id].link, seen \cup {id})

\* A call on Color r acts on Color o: r is o, or a background of o that the
\* caller shares with it.
Touches(r, o) == r \in LinkReach(o, {})

\* C5: clone independence.  A clone() step leaves the original as it was and
\* yields a new Color with the same component sets, freshness flag and cached
\* lumas, whose background (if any) is a new Color too; and for a Color c2
\* cloned from c1, every call that acts on one of them and not on the other
\* (the caller did not make one the background of the other) leaves every
\* accessor of the other unchanged.
CloneIndependent ==
    [][/\ last'.op = "clone" =>
             /\ heap'[last'.rcv] = heap[last'.rcv]
             /\ last'.ret \notin Ids(heap)
             /\ heap'[last'.ret].rgb = heap[last'.rcv].rgb
             /\ heap'[last'.ret].hsl = heap[last'.rcv].hsl
             /\ heap'[last'.ret].outdated = heap[last'.rcv].outdated
             /\ heap'[last'.ret].luma = heap[last'.rcv].luma
             /\ heap'[last'.ret].lumaYUV = heap[last'.rcv].lumaYUV
             /\ heap[last'.rcv].bg # 0 => heap'[last'.ret].bg \notin Ids(heap) \cup {0}
             /\ Obs(heap', last'.ret) = Obs(heap, last'.rcv)
       /\ \A c2 \in Ids(heap) :
             LET c1 == ghost[c2].cloneOf
             IN  c1 # 0 =>
                   /\ (Touches(last'.rcv, c2) /\ ~Touches(last'.rcv, c1))
                         => Obs(heap', c1) = Obs(heap, c1)
                   /\ (Touches(last'.rcv, c1) /\ ~Touches(last'.rcv, c2))
                         => Obs(heap', c2) = Obs(heap, c2)
      ]_vars

\* C5 witness: a mutator was called on a clone the caller holds; the clone's
\* accessors now differ from the original's, and the original's are what
\* they were before the call.
CloneIndependentWitness ==
    /\ last.op \in Mutators
    /\ last.rcv \in handles
    /\ ghost[last.rcv].cloneOf # 0
    /\ ghost[last.rcv].cloneOf \in handles
    /\ Obs(heap, last.rcv) # Obs(heap, ghost[last.rcv].cloneOf)
    /\ Obs(heap, ghost[last.rcv].cloneOf) = Obs(prev, ghost[last.rcv].cloneOf)

\* The largest difference between the first three components of two sets
Dist3(a, b) ==
    Max2(Abs(a[1] - b[1]), Max2(Abs(a[2] - b[2]), Abs(a[3] - b[3])))

\* C6: RGB round trip.  HSLa.fromRGBa followed by RGBa.fromHSLa gives back
\* each of r, g, b within 1.
RGBRoundTrip ==
    (conv.start = "rgb" /\ Len(conv.vals) >= 3)
        => Dist3(conv.vals[3], conv.vals[1]) <= 1

\* C7: HSL round trip.  For integer h in [0,360), s in (0,100], l in
\* [0,100], RGBa.fromHSLa followed by HSLa.fromRGBa gives back hue,
\* saturation and lightness within 1.
HSLRoundTrip ==
    (conv.start = "hsl" /\ Len(conv.vals) >= 3 /\ conv.vals[1][2] > 0)
        => Dist3(conv.vals[3], conv.vals[1]) <= 1

InvertHSLInvolution ==
    LET before == GetHSLa(prev2[last.rcv]).hsl
        after  == GetHSLa(heap[last.rcv]).hsl
    IN  (/\ last.op = "invertHSL"
         /\ last2.op = "invertHSL"
         /\ last2.rcv = last.rcv
         /\ before[1] >= 0 /\ before[1] < 360)
            => /\ after[1] = before[1]
               /\ after[2] = before[2]
               /\ after[3] = before[3]

\* C10: rotateHue(deg) on a Color with integer hue h in [0,360) sets the hue
\* to (h + deg) mod 360, taken in [0,360).
RotateHueWraps ==
    LET before == GetHSLa(prev[last.rcv]).hsl
    IN  (last.op = "rotateHue" /\ before[1] >= 0 /\ before[1] < 360)
            => GetHSLa(heap[last.rcv]).hsl[1] = (before[1] + last.arg) % 360

\* C11: RGBA range.  Every number held in an RGBA set of a Color, whatever
\* the seed and the calls made, is an integer in [0,255].
RGBRange ==
    \A id \in Ids(heap) :
        heap[id].rgb # NoSet =>
            \A i \in 1..4 :
                heap[id].rgb[i] # NaN => heap[id].rgb[i] \in 0..255

\* C12: HSLA range.  In every HSLA set of a Color the hue is in [0,360),
\* saturation and lightness are in [0,100] and alpha is in [0,1].
HSLRange ==
    \A id \in Ids(heap) :
        heap[id].hsl # NoSet =>
            /\ heap[id].hsl[1] \in 0..359
            /\ heap[id].hsl[2] \in 0..100
            /\ heap[id].hsl[3] \in 0..100
            /\ heap[id].hsl[4][1] >= 0
            /\ heap[id].hsl[4][1] <= heap[id].hsl[4][2]

\* C13: malformed seeds fail fast.  A construction from an rgb(), hsl() or
\* hex string with a component that is not numeric throws, and no Color
\* holds NaN.
MalformedSeedsThrow ==
    /\ (/\ last.op = "fromRgb"
        /\ \E i \in 1..Min2(3, Len(last.arg)) : last.arg[i].k = "txt")
          => last.ret = 0
    /\ (/\ last.op = "fromHsl"
        /\ \E i \in 1..Min2(3, Len(last.arg.data)) : last.arg.data[i].k = "txt")
          => last.ret = 0
    /\ (/\ last.op = "fromHex"
        /\ \E i \in 1..Len(last.arg) : last.arg[i] = NotHex)
          => last.ret = 0
    /\ \A id \in Ids(heap) :
          /\ heap[id].rgb # NoSet => \A i \in 1..3 : heap[id].rgb[i] # NaN
          /\ heap[id].hsl # NoSet => \A i \in 1..3 : heap[id].hsl[i] # NaN

\* C14: opacity clamps.  After opacity(v), in every freshness state, the
\* alpha accessor is 1 (alpha byte 255) for v >= 1, 0 (alpha byte 0) for
\* v <= 0, and within half a byte step (1/510) of v otherwise.
OpacityClamps ==
    last.op = "opacity" =>
        LET v == last.arg
            a == Color_alpha(heap[last.rcv])
            byte == GetRGBa(heap[last.rcv]).rgb[4]
        IN  /\ v[1] >= v[2] => (a[1] = a[2] /\ byte = 255)
            /\ v[1] <= 0 => (a[1] = 0 /\ byte = 0)
            /\ (v[1] > 0 /\ v[1] < v[2]) =>
                  510 * Abs(a[1] * v[2] - v[1] * a[2]) <= a[2] * v[2]

\* C14 witness: opacity(-1) on a Color whose two sets were both up to date
\* and whose alpha was not 0; the alpha accessor now answers 0.
OpacityClampsWitness ==
    /\ last.op = "opacity"
    /\ last.arg = <<0 - 1, 1>>
    /\ prev[last.rcv].outdated = 0 - 1
    /\ Color_alpha(prev[last.rcv])[1] # 0
    /\ Color_alpha(heap[last.rcv])[1] = 0

\* The bytes solid() blends with: those of the background, white without one
SolidBg(h, id) == IF h[id].bg = 0 THEN White ELSE GetRGBa(h[h[id].bg]).rgb

\* The blend of the RGBA set b with the background bytes bg at weight al
Blend(b, bg, al) ==
    [i \in 1..4 |->
        IF i = 4 THEN 255
        ELSE limit(Round(b[i] * al[1] + bg[i] * (al[2] - al[1]), al[2]), 255)]

\* C15 as claimed: solid() on a Color with alpha < 1 blends every channel
\* with the background at the weight the alpha accessor answered before the
\* call, and sets alpha to opaque.
SolidCompositesUnitAlpha ==
    (last.op = "solid" /\ Color_hasAlpha(prev[last.rcv])) =>
        heap[last.rcv].rgb =
            Blend(GetRGBa(prev[last.rcv]).rgb, SolidBg(prev, last.rcv),
                  Color_alpha(prev[last.rcv]))

\* C15 amended: solid() on a Color with alpha < 1 blends every channel with
\* the background at the weight a / 255, a the alpha byte of the RGBA set
\* before the call (for a Color whose RGBA set was outdated, the HSLA alpha
\* rounded to a byte), and sets alpha to opaque; "#ffaa4480" over "#fff"
\* becomes (255,212,161), "#ffd4a1".
SolidComposites ==
    (last.op = "solid" /\ Color_hasAlpha(prev[last.rcv])) =>
        LET b == GetRGBa(prev[last.rcv]).rgb
            bg == SolidBg(prev, last.rcv)
        IN  /\ heap[last.rcv].rgb = Blend(b, bg, <<b[4], 255>>)
            /\ (b = <<255, 170, 68, 128>> /\ bg[1] = 255 /\ bg[2] = 255
                   /\ bg[3] = 255)
                  => heap[last.rcv].rgb = <<255, 212, 161, 255>>

\* C15 witness: "#ffaa4480" with the background "#fff" was made solid.
SolidCompositesWitness ==
    /\ last.op = "solid"
    /\ prev[last.rcv].rgb = <<255, 170, 68, 128>>
    /\ prev[last.rcv].bg # 0
    /\ SolidBg(prev, last.rcv) = <<255, 255, 255, 255>>
    /\ heap[last.rcv].rgb = <<255, 212, 161, 255>>

\* C17: populated representation.  Every Color has a flag, and the set (or
\* sets) its flag does not mark outdated is populated, so that no accessor
\* dereferences a missing set.
Populated ==
    \A id \in Ids(heap) :
        /\ heap[id].outdated \in {0 - 1, 0, 1}
        /\ heap[id].outdated # 0 => heap[id].rgb # NoSet
        /\ heap[id].outdated # 1 => heap[id].hsl # NoSet

\* The same call, with the same argument, made twice in a row on one Color
Twice(opnames) ==
    /\ last.op \in opnames
    /\ last2.op = last.op
    /\ last2.rcv = last.rcv
    /\ last2.arg = last.arg

\* C18 as claimed: contrast(v), brightness(v), opacity(v), solid() or
\* invert() made twice in a row leaves the RGBA set the first call left.
RGBOpsIdempotent ==
    Twice({"contrast", "brightness", "opacity", "solid", "invert"})
        => GetRGBa(heap[last.rcv]).rgb = GetRGBa(prev[last.rcv]).rgb

\* C18 amended: opacity(v) or solid() made twice in a row leaves the RGBA
\* set the first call left.
OpacitySolidIdempotent ==
    Twice({"opacity", "solid"})
        => GetRGBa(heap[last.rcv]).rgb = GetRGBa(prev[last.rcv]).rgb

\* C18 witness: opacity(v) twice on a Color that wrote its RGBA set both
\* times, the first call having changed the alpha byte.
OpacitySolidIdempotentWitness ==
    /\ Twice({"opacity"})
    /\ preferRGBa(prev2[last.rcv])
    /\ prev2[last.rcv].rgb[4] # prev[last.rcv].rgb[4]
    /\ heap[last.rcv].rgb = prev[last.rcv].rgb

\* Two rationals are the same number
SameQ(a, b) == a[1] * b[2] = b[1] * a[2]

\* The sets of Color c hold values in their ranges
InRange(c) ==
    /\ c.rgb # NoSet => \A i \in 1..4 : c.rgb[i] \in 0..255
    /\ c.hsl # NoSet => (c.hsl[1] \in 0..359 /\ c.hsl[2] \in 0..100
                           /\ c.hsl[3] \in 0..100)

\* C19: contrast(1), brightness(1) and saturate(1), on a Color whose values
\* are in range, leave every accessor of the Color (red, green, blue, hue,
\* saturation, lightness, alpha) as it was.
IdentityArgsKeep ==
    (/\ last.op \in {"contrast", "brightness", "saturate"}
     /\ last.arg = <<1, 1>>
     /\ InRange(prev[last.rcv]))
        => /\ GetRGBa(heap[last.rcv]).rgb = GetRGBa(prev[last.rcv]).rgb
           /\ GetHSLa(heap[last.rcv]).hsl[1] = GetHSLa(prev[last.rcv]).hsl[1]
           /\ GetHSLa(heap[last.rcv]).hsl[2] = GetHSLa(prev[last.rcv]).hsl[2]
           /\ GetHSLa(heap[last.rcv]).hsl[3] = GetHSLa(prev[last.rcv]).hsl[3]
           /\ SameQ(Color_alpha(heap[last.rcv]), Color_alpha(prev[last.rcv]))

\* opacity(0.7) then rotateHue(180) were the last two calls, on the Color
\* seeded from rgba(255,170,68,0.5)
OpacityRotateScenario ==
    /\ last.op = "rotateHue"
    /\ last.arg = 180
    /\ last2.op = "opacity"
    /\ last2.arg = <<7, 10>>
    /\ last2.rcv = last.rcv
    /\ prev2[last.rcv] = Color_fromRGBa(<<255, 170, 68, 128>>)

\* C20 as claimed: after the scenario the hue accessor is 213 and the alpha
\* accessor is 0.7.
OpacityThenRotateExact ==
    OpacityRotateScenario
        => /\ GetHSLa(heap[last.rcv]).hsl[1] = 213
           /\ SameQ(Color_alpha(heap[last.rcv]), <<7, 10>>)

\* C20 amended: after the scenario the hue accessor is 213 and the alpha
\* accessor is 179/255, 0.7 rounded to a byte; in general, after opacity(v)
\* on a Color whose RGBA set was up to date and then an HSL-native mutator,
\* the alpha accessor is the alpha byte opacity(v) wrote, over 255.
OpacityThenRotate ==
    /\ OpacityRotateScenario
          => /\ GetHSLa(heap[last.rcv]).hsl[1] = 213
             /\ SameQ(Color_alpha(heap[last.rcv]), <<179, 255>>)
    /\ (/\ last.op \in HSLMutators
        /\ last2.op = "opacity"
        /\ last2.rcv = last.rcv
        /\ preferRGBa(prev2[last.rcv]))
          => SameQ(Color_alpha(heap[last.rcv]),
                   <<byte_(255 * last2.arg[1], last2.arg[2]), 255>>)

\* C20 witness: opacity(v) on a Color whose two sets were both up to date,
\* then an HSL-native mutator; the alpha accessor answers another alpha than
\* before the two calls.
OpacityThenRotateWitness ==
    /\ last.op \in HSLMutators
    /\ last2.op = "opacity"
    /\ last2.rcv = last.rcv
    /\ prev2[last.rcv].outdated = 0 - 1
    /\ ~SameQ(Color_alpha(heap[last.rcv]), Color_alpha(prev2[last.rcv]))

\* The luma (times 10000) of a typed-array Color composited over the default
\* white background
ix_lumaFilled(color) == ix_luma(ix_rgb(ix_fill(color, ix_White)))

\* The greatest common divisor of two naturals, not both 0
RECURSIVE GCD(_, _)
GCD(a, b) == IF b = 0 THEN a ELSE GCD(b, a % b)

\* A positive rational in lowest terms; two ratios are the same number
Lowest(q) == <<q[1] \div GCD(q[1], q[2]), q[2] \div GCD(q[1], q[2])>>
SameRatio(p, q) == Lowest(p) = Lowest(q)

\* C16: contrast ratio.  contrast(a, b) is (max(L1,L2) + 0.05) / (min(L1,L2)
\* + 0.05) for the background-composited lumas L1, L2 of a and b; it is in
\* [1,21], the same for (b, a), 21 for white against black and 1 for a color
\* against itself.
ContrastRatio ==
    last.op = "contrast" =>
        LET a == prev[last.rcv]
            b == prev[last.arg]
        IN  /\ SameRatio(last.ret, ix_ratio(ix_lumaFilled(a), ix_lumaFilled(b)))
            /\ last.ret[1] >= last.ret[2]
            /\ last.ret[1] <= 21 * last.ret[2]
            /\ SameRatio(last.ret, ix_contrast(b, a))
            /\ (ix_rgb(a) = ix_seed(<<255, 255, 255, 255>>)
                   /\ ix_rgb(b) = ix_seed(<<0, 0, 0, 255>>))
                  => SameRatio(last.ret, <<21, 1>>)
            /\ last.rcv = last.arg => SameRatio(last.ret, <<1, 1>>)

\* C21: the Color seeded from "#fa4" holds the bytes (255,170,68,255), each
\* digit doubled and alpha opaque, so hex is "#ffaa44"; the HSL read that
\* follows answers (33,100,63), so hsl is "hsl(33 100% 63%)", and leaves hex
\* as it was.
ShortHexScenario ==
    /\ last.op = "fromHex" /\ last.arg = <<15, 10, 4>>
          => /\ heap[1].rgb = <<255, 170, 68, 255>>
             /\ heap[1].outdated = 1
             /\ RGBToHex(GetRGBa(heap[1]).rgb) = <<15, 15, 10, 10, 4, 4>>
    /\ (last.op = "HSLbytes" /\ last2.op = "fromHex" /\ last2.arg = <<15, 10, 4>>)
          => /\ last.ret = <<33, 100, 63, <<1, 1>>>>
             /\ HSLtoHsl(last.ret) = <<33, 100, 63>>
             /\ RGBToHex(GetRGBa(heap[1]).rgb) = RGBToHex(GetRGBa(prev[1]).rgb)
             /\ RGBToHex(GetRGBa(heap[1]).rgb) = <<15, 15, 10, 10, 4, 4>>

\* C21 witness: the HSL read right after the construction from "#fa4"
\* converted the RGBA set and answered (33,100,63).
ShortHexScenarioWitness ==
    /\ last.op = "HSLbytes"
    /\ last2.op = "fromHex"
    /\ last2.arg = <<15, 10, 4>>
    /\ prev[1].hsl = NoSet
    /\ heap[1].hsl = <<33, 100, 63, <<1, 1>>>>
    /\ heap[1].outdated = 0 - 1

\* The freshness state of a Color, read off #outdated
RGBFresh(c) == c.outdated = 1
HSLFresh(c) == c.outdated = 0
BothFresh(c) == c.outdated = 0 - 1

RGBMutators == {"contrast", "brightness", "invert", "solid"}

\* C22 as claimed: after contrast, brightness, invert or solid the Color is
\* RGB-fresh, whatever its freshness state was.
RGBMutatorsLeaveRGBFresh ==
    last.op \in RGBMutators => RGBFresh(heap[last.rcv])

\* C22 amended: after contrast, brightness or invert, and after solid on a
\* Color whose alpha accessor is below 1, the Color is RGB-fresh, whatever its
\* freshness state was; solid on a Color whose alpha is 1 leaves the Color,
\* its freshness state included, as it was.
RGBMutatorsFreshness ==
    /\ (last.op \in RGBMutators
           /\ (last.op = "solid" => Color_hasAlpha(prev[last.rcv])))
          => RGBFresh(heap[last.rcv])
    /\ (last.op = "solid" /\ ~Color_hasAlpha(prev[last.rcv]))
          => heap[last.rcv] = prev[last.rcv]

\* C22 witness: solid on an HSL-fresh Color with alpha below 1 left it
\* RGB-fresh.
RGBMutatorsFreshnessWitness ==
    /\ last.op = "solid"
    /\ HSLFresh(prev[last.rcv])
    /\ Color_hasAlpha(prev[last.rcv])
    /\ RGBFresh(heap[last.rcv])

\* The HSLA set an HSL read of Color c answers: converted from the RGBA set
\* when the HSLA set is marked outdated
FreshHSL(c) == IF RGBFresh(c) THEN HSLa_fromRGBa(c.rgb) ELSE c.hsl

\* C23: after rotateHue, saturate or invertHSL the Color is HSL-fresh, whatever
\* its freshness state was; its HSLA set is the change applied to the HSLA
\* set as it was, or to the conversion of the RGBA set if the HSLA set was
\* stale; the RGBA set is left as it was, now marked stale.
HSLMutatorsFreshness ==
    last.op \in HSLMutators =>
        LET c == heap[last.rcv]
            base == FreshHSL(prev[last.rcv])
        IN  /\ HSLFresh(c)
            /\ c.rgb = prev[last.rcv].rgb
            /\ c.hsl[4] = base[4]
            /\ last.op = "rotateHue" =>
                  c.hsl = [base EXCEPT ![1] = rotate_(base[1], last.arg)]
            /\ last.op = "saturate" =>
                  c.hsl = [base EXCEPT
                              ![2] = pct_(base[2] * last.arg[1], last.arg[2])]
            /\ last.op = "invertHSL" =>
                  c.hsl = <<rotate_(base[1], 180), 100 - base[2],
                            100 - base[3], base[4]>>

\* C23 witness: rotateHue on an RGB-fresh Color that had no HSLA set yet left
\* it HSL-fresh, with an HSLA set whose hue is not the converted one.
HSLMutatorsFreshnessWitness ==
    /\ last.op = "rotateHue"
    /\ RGBFresh(prev[last.rcv])
    /\ prev[last.rcv].hsl = NoSet
    /\ HSLFresh(heap[last.rcv])
    /\ heap[last.rcv].hsl[1] # HSLa_fromRGBa(prev[last.rcv].rgb)[1]

Reads == {"bytes", "HSLbytes", "alpha", "luma", "lumaYUV"}

\* C24: conversion on read.  A bytes read of an HSL-fresh Color (an HSLbytes
\* read of an RGB-fresh Color) converts the authoritative set, answers the
\* conversion, leaves the Color both-fresh and the authoritative set as it
\* was; a read of a both-fresh Color changes neither set nor the state, and
\* a bytes / HSLbytes read of it answers the set as stored, so that a read
\* repeated without a mutator in between answers the same value.
ConversionOnRead ==
    /\ last.op \in Reads =>
        LET c == heap[last.rcv]
            p == prev[last.rcv]
        IN  /\ (last.op = "bytes" /\ HSLFresh(p))
                  => /\ BothFresh(c)
                     /\ c.hsl = p.hsl
                     /\ c.rgb = RGBa_fromHSLa(p.hsl)
                     /\ last.ret = c.rgb
            /\ (last.op = "HSLbytes" /\ RGBFresh(p))
                  => /\ BothFresh(c)
                     /\ c.rgb = p.rgb
                     /\ c.hsl = HSLa_fromRGBa(p.rgb)
                     /\ last.ret = c.hsl
            /\ BothFresh(p)
                  => /\ BothFresh(c) /\ c.rgb = p.rgb /\ c.hsl = p.hsl
                     /\ last.op = "bytes" => last.ret = p.rgb
                     /\ last.op = "HSLbytes" => last.ret = p.hsl
    /\ (last.op \in Reads /\ last2.op = last.op /\ last2.rcv = last.rcv)
          => last.ret = last2.ret

\* C24 witness: two bytes reads in a row of a Color that was HSL-fresh; the
\* first converted, the second found the Color both-fresh, changed nothing
\* and answered the same bytes.
ConversionOnReadWitness ==
    /\ last.op = "bytes"
    /\ last2.op = "bytes"
    /\ last2.rcv = last.rcv
    /\ HSLFresh(prev2[last.rcv])
    /\ BothFresh(prev[last.rcv])
    /\ heap = prev
    /\ last.ret = last2.ret

\* The unit alpha a is within half a byte step (1/510) of the unit value u
NearUnit(a, u) == 510 * Abs(a[1] * u[2] - u[1] * a[2]) <= a[2] * u[2]

\* C25: opacity(v) on an HSL-fresh Color writes the HSLA alpha and leaves the
\* Color HSL-fresh; on an RGB-fresh or both-fresh Color it writes the RGBA
\* alpha and leaves the Color RGB-fresh; in each case the alpha accessor, the
\* RGB-side alpha byte and the HSL-side alpha read next answer v (clamped to
\* the unit range and, through the byte, rounded to 1/255), not the alpha
\* from before the call.
OpacityNoStaleAlpha ==
    last.op = "opacity" =>
        LET c == heap[last.rcv]
            p == prev[last.rcv]
            u == unit(last.arg)
            b == byte_(255 * last.arg[1], last.arg[2])
        IN  /\ HSLFresh(p) =>
                  (HSLFresh(c) /\ c.hsl[4] = u /\ c.rgb = p.rgb)
            /\ ~HSLFresh(p) =>
                  (RGBFresh(c) /\ c.rgb[4] = b /\ c.hsl = p.hsl)
            /\ NearUnit(Color_alpha(c), u)
            /\ GetRGBa(c).rgb[4] = b
            /\ NearUnit(GetHSLa(c).hsl[4], u)

\* C25 witness: opacity(v) on a both-fresh Color whose alpha was further than
\* a byte step from v; the HSLA set still holds the old alpha, and the alpha
\* accessor and the HSL-side alpha answer the new one.
OpacityNoStaleAlphaWitness ==
    /\ last.op = "opacity"
    /\ BothFresh(prev[last.rcv])
    /\ ~NearUnit(Color_alpha(prev[last.rcv]), unit(last.arg))
    /\ heap[last.rcv].hsl[4] = Color_alpha(prev[last.rcv])
    /\ NearUnit(Color_alpha(heap[last.rcv]), unit(last.arg))
    /\ NearUnit(GetHSLa(heap[last.rcv]).hsl[4], unit(last.arg))

\* The first three components of a set
Triple(set) == <<set[1], set[2], set[3]>>

\* C29: opacity changes only alpha.  After opacity(value), in every freshness
\* state, the red, green and blue accessors and the hue, saturation and
\* lightness accessors answer what they answered before the call.
OpacityOnlyAlpha ==
    last.op = "opacity" =>
        /\ Triple(GetRGBa(heap[last.rcv]).rgb) = Triple(GetRGBa(prev[last.rcv]).rgb)
        /\ Triple(GetHSLa(heap[last.rcv]).hsl) = Triple(GetHSLa(prev[last.rcv]).hsl)

\* C30: reads are observationally pure.  Two Colors made from the same seed
\* that got the same mutator calls answer the same red, green, blue, hue,
\* saturation, lightness, alpha and luma, whichever reads were made on
\* either of them in between.
ReadsPure ==
    ~Pending =>
        /\ GetRGBa(heap[1]).rgb = GetRGBa(heap[2]).rgb
        /\ Triple(GetHSLa(heap[1]).hsl) = Triple(GetHSLa(heap[2]).hsl)
        /\ SameQ(GetHSLa(heap[1]).hsl[4], GetHSLa(heap[2]).hsl[4])
        /\ SameQ(Color_alpha(heap[1]), Color_alpha(heap[2]))
        /\ Color_luma(heap, 1)[1].luma = Color_luma(heap, 2)[2].luma
        /\ Color_lumaYUV(heap, 1)[1].lumaYUV = Color_lumaYUV(heap, 2)[2].lumaYUV

\* The functions of index.ts that write the HSL model of the Color they
\* return, and those that make their Color from RGB values
IxHSLWriters == {"hue", "saturation", "lightness", "rotate", "saturate",
                 "lighten", "darken", "invertHsl"}
IxRGBMakers == {"Color", "fromHex", "fromRgb", "mix", "grayscale", "invert"}

\* The HSL elements of a typed-array Color are in their ranges
IxHSLInRange(color) ==
    /\ color[ixH] \in 0..360
    /\ color[ixS] \in 0..100
    /\ color[ixL] \in 0..100

\* C27: component ranges.  hue, saturation, lightness, rotate, saturate,
\* lighten, darken and invertHsl, called with an argument in its documented
\* range on a Color whose HSL elements are in range, return a Color with H in
\* [0,360] and S, L in [0,100].
IxRanges ==
    (/\ last.op \in IxHSLWriters
     /\ IxHSLInRange(ix_hsl(prev[last.rcv])))
        => IxHSLInRange(heap[last.ret])

\* The RGB (HSL) elements of a Color are the conversion of its HSL (RGB)
\* elements
IxRGBFromHSL(c) ==
    /\ c[ixR] = ix_channel(0, c[ixH], c[ixS], c[ixL])
    /\ c[ixG] = ix_channel(8, c[ixH], c[ixS], c[ixL])
    /\ c[ixB] = ix_channel(4, c[ixH], c[ixS], c[ixL])

IxHSLFromRGB(c) == <<c[ixH], c[ixS], c[ixL]>> = ix_hslOf(c[ixR], c[ixG], c[ixB])

\* C26: the MODEL flag.  MODEL of every Color is RGB, HSL or RGB | HSL,
\* never 0; when both bits are set, one model is the conversion of the
\* other; a function that writes an HSL element returns a Color whose MODEL
\* is HSL alone, holding the element written, and a function that makes its
\* Color from RGB values returns one whose MODEL is RGB alone, so that the
\* other model is converted anew before bytes() or bytesHsl() answers it.
IxModelFlag ==
    /\ \A id \in Ids(heap) :
          /\ heap[id][ixMODEL] \in {ixRGB, ixHSL, ixRGB + ixHSL}
          /\ heap[id][ixMODEL] = ixRGB + ixHSL
                => (IxRGBFromHSL(heap[id]) \/ IxHSLFromRGB(heap[id]))
    /\ last.op \in IxHSLWriters =>
          /\ heap[last.ret][ixMODEL] = ixHSL
          /\ last.op = "hue" => heap[last.ret][ixH] = ToUint16(last.arg, 1)
          /\ last.op = "saturation" => heap[last.ret][ixS] = ToUint16(last.arg, 1)
          /\ last.op = "lightness" => heap[last.ret][ixL] = ToUint16(last.arg, 1)
    /\ (last.op \in IxRGBMakers /\ last.ret # 0) =>
          heap[last.ret][ixMODEL] = ixRGB
    /\ (last.op = "bytes" /\ ~HasModel(prev[last.rcv][ixMODEL], ixRGB)) =>
          /\ IxRGBFromHSL(heap[last.rcv])
          /\ last.ret = <<heap[last.rcv][ixR] % 256, heap[last.rcv][ixG] % 256,
                          heap[last.rcv][ixB] % 256, heap[last.rcv][ixA] % 256>>
    /\ (last.op = "bytesHsl" /\ ~HasModel(prev[last.rcv][ixMODEL], ixHSL)) =>
          /\ IxHSLFromRGB(heap[last.rcv])
          /\ last.ret = <<heap[last.rcv][ixH], heap[last.rcv][ixS],
                          heap[last.rcv][ixL], heap[last.rcv][ixA]>>

\* C26 witness: bytes() on the Color hue() returned, whose source had both
\* models up to date; the bytes are converted from the new hue and differ
\* from the RGB elements the Color was copied with.
IxModelFlagWitness ==
    /\ last.op = "bytes"
    /\ last2.op = "hue"
    /\ last.rcv = last2.ret
    /\ prev[last2.rcv][ixMODEL] = ixRGB + ixHSL
    /\ heap[last.rcv][ixMODEL] = ixRGB + ixHSL
    /\ <<heap[last.rcv][ixR], heap[last.rcv][ixG], heap[last.rcv][ixB]>>
          # <<prev[last.rcv][ixR], prev[last.rcv][ixG], prev[last.rcv][ixB]>>

\* The functions of index.ts that return a Color
IxReturning ==
    IxHSLWriters \cup {"mix", "fill", "opacity", "invert", "grayscale"}

\* C28: the Color-returning functions do not change their inputs.  After
\* mix, fill, opacity, hue, saturation, lightness, rotate, saturate, lighten,
\* darken, invert, invertHsl or grayscale, the Color returned is a new one,
\* and every Color there was before answers bytes() and bytesHsl() as it
\* would have before the call: alpha and the elements of a model that was up
\* to date are as they were, and MODEL has at most gained a bit.
IxInputsKept ==
    last.op \in IxReturning =>
        /\ last.ret = Len(prev) + 1
        /\ Len(heap) = Len(prev) + 1
        /\ \A id \in Ids(prev) :
              LET c == heap[id]
                  p == prev[id]
              IN  /\ ix_bytes(c) = ix_bytes(p)
                  /\ ix_bytesHsl(c) = ix_bytesHsl(p)
                  /\ c[ixA] = p[ixA]
                  /\ HasModel(p[ixMODEL], ixRGB) =>
                        (HasModel(c[ixMODEL], ixRGB) /\ c[ixR] = p[ixR]
                            /\ c[ixG] = p[ixG] /\ c[ixB] = p[ixB])
                  /\ HasModel(p[ixMODEL], ixHSL) =>
                        (HasModel(c[ixMODEL], ixHSL) /\ c[ixH] = p[ixH]
                            /\ c[ixS] = p[ixS] /\ c[ixL] = p[ixL])

\* C28 witness: a function that writes an HSL element was called on a Color
\* whose HSL model was not up to date; the call converted it in the
\* argument, whose RGB elements and bytes() are as before, and returned
\* another Color with other HSL elements.
IxInputsKeptWitness ==
    /\ last.op \in IxHSLWriters
    /\ prev[last.rcv][ixMODEL] = ixRGB
    /\ heap[last.rcv][ixMODEL] = ixRGB + ixHSL
    /\ ix_bytes(heap[last.rcv]) = ix_bytes(prev[last.rcv])
    /\ last.ret # last.rcv
    /\ ix_bytesHsl(heap[last.ret]) # ix_bytesHsl(heap[last.rcv])

\* The alpha written in a seed: the fourth number of an rgb()/rgba() string,
\* the number after "/" of an hsl() string
SeedAlpha(call) ==
    IF call.op = "fromRgb"
    THEN (IF Len(call.arg) >= 4 THEN call.arg[4] ELSE Missing)
    ELSE call.arg.a

\* C31: an explicit alpha in a seed is preserved.  After Color.from on an
\* rgb()/rgba() or hsl() string that writes an alpha a in [0,1], the alpha
\* accessor answers a, to within half a byte step, and hasAlpha is true when
\* a < 1; a = 0 included.
SeedAlphaKept ==
    (/\ last.op \in {"fromRgb", "fromHsl"}
     /\ last.ret # 0
     /\ SeedAlpha(last).k = "num"
     /\ SeedAlpha(last).v[1] >= 0
     /\ SeedAlpha(last).v[1] <= SeedAlpha(last).v[2])
        => /\ NearUnit(Color_alpha(heap[last.ret]), SeedAlpha(last).v)
           /\ SeedAlpha(last).v[1] < SeedAlpha(last).v[2]
                 => Color_hasAlpha(heap[last.ret])

====
